---- MODULE Spec2Model ----
(***************************************************************************)
(* sun: event-driven monitoring engine.  Per-object health state stores    *)
(* (pod, node, node resource, Longhorn, GitOps), the alert gate, the       *)
(* leader-gated webhook sink and the leader election callbacks.            *)
(*                                                                         *)
(* Time is counted in minutes.  Every informer callback runs to completion *)
(* on its informer's handler goroutine, so one callback is one action.     *)
(***************************************************************************)
EXTENDS Integers, Sequences, FiniteSets, TLC

\* ------------------------------------------------------------------ bounds
MaxTime == 3
Dwell == 2
MaxContainers == 2
MaxCount == 2

\* time.Time{}: the zero instant, before every reading of the clock.
ZeroTime == 0

Replicas == {"A", "B"}
Keys == {"k1"}
Times == 1..MaxTime
Intervals == {0, Dwell}

LonghornKinds == {"volume", "replica", "engine", "node", "backup"}
\* The family of a Longhorn resourceType.
LonghornFamily(kind) ==
    CASE kind = "volume" -> "longhorn_volume"
      [] kind = "replica" -> "longhorn_replica"
      [] kind = "engine" -> "longhorn_engine"
      [] kind = "node" -> "longhorn_node"
      [] kind = "backup" -> "longhorn_backup"

LonghornFamilies == {LonghornFamily(kind) : kind \in LonghornKinds}
KindOf(family) == CHOOSE kind \in LonghornKinds : LonghornFamily(kind) = family

Families == {"pod", "node", "node_resource", "gitops"} \cup LonghornFamilies
\* The informer (or GitOps worker) whose callbacks a behaviour exercises.
Sources == Families

VARIABLES
    now,                \* wall clock, minutes
    config,             \* the loaded Config
    isLeader,           \* isLeader, per replica
    election,           \* where each replica's runLeaderElection stands
    source,             \* the event source exercised
    podStates,          \* podStates, per replica
    nodeStates,         \* nodeStates, per replica
    nodeResourceStates, \* nodeResourceStates, per replica
    longhornStates,     \* the five longhorn*States maps by kind, per replica
    gitOpsStates,       \* gitOpsStates, per replica
    worker,             \* where each replica's monitorGitOpsRepository stands
    repoState,          \* each replica's gitOpsRepositoryState and the files of its clone
    gvr,                \* gvrCache, gvrCacheInit, gvrCacheLock and the calls of getGVRForKind
    cluster,            \* the watched object as the API server holds it
    pending,            \* per replica: an update of the pod is queued for its informer
    led,                \* history: some replica was leader at every callback of the episode
    ep,                 \* history: the current error episode per replica, family, key
    last                \* history: the last callback per family and key

stores == <<podStates, nodeStates, nodeResourceStates, longhornStates, gitOpsStates>>

feed == <<cluster, pending, led>>

vars == <<now, config, isLeader, election, source, gvr, stores, worker, repoState, feed, ep, last>>

\* ------------------------------------------------------------- unit state
unitState(hasError, lastSeen, lastMessage, firstError, alertSent) ==
    [hasError |-> hasError, lastSeen |-> lastSeen, lastMessage |-> lastMessage,
     firstError |-> firstError, alertSent |-> alertSent]

\* What `state, exists := m[key]` yields: the zero value when the key is absent.
Lookup(m, key) ==
    IF key \in DOMAIN m
    THEN [exists |-> TRUE, hasError |-> m[key].hasError, alertSent |-> m[key].alertSent,
          firstError |-> m[key].firstError, lastMessage |-> m[key].lastMessage]
    ELSE [exists |-> FALSE, hasError |-> FALSE, alertSent |-> FALSE,
          firstError |-> ZeroTime, lastMessage |-> ""]

Put(m, key, val) == [x \in DOMAIN m \cup {key} |-> IF x = key THEN val ELSE m[x]]

Remove(m, key) == [x \in DOMAIN m \ {key} |-> m[x]]

\* time.Since(t) in minutes; the zero instant lies further back than any interval.
Since(t) == IF t = ZeroTime THEN MaxTime + Dwell + 1 ELSE now - t

\* --------------------------------------------------------------- the gate
\* The four stores shouldSendAlert switches over, for replica r.
Stores(r) ==
    [pod |-> podStates[r], node |-> nodeStates[r],
     node_resource |-> nodeResourceStates[r], gitops |-> gitOpsStates[r]]

shouldSendAlertMutStrict(S, alertType, key) ==
    LET st == CASE alertType = "pod" -> Lookup(S.pod, key)
                [] alertType = "node" -> Lookup(S.node, key)
                [] alertType = "node_resource" -> Lookup(S.node_resource, key)
                [] alertType = "gitops" -> Lookup(S.gitops, key)
                [] OTHER -> Lookup(<<>>, key)
    IN  IF ~st.exists \/ ~st.hasError \/ st.alertSent THEN FALSE
        ELSE IF config.Interval = 0 THEN TRUE
        ELSE Since(st.firstError) > config.Interval

shouldSendAlert(S, alertType, key) ==
    LET st == CASE alertType = "pod" -> Lookup(S.pod, key)
                [] alertType = "node" -> Lookup(S.node, key)
                [] alertType = "node_resource" -> Lookup(S.node_resource, key)
                [] alertType = "gitops" -> Lookup(S.gitops, key)
                [] OTHER -> Lookup(<<>>, key)
    IN  IF ~st.exists \/ ~st.hasError \/ st.alertSent THEN FALSE
        ELSE IF config.Interval = 0 THEN TRUE
        ELSE Since(st.firstError) >= config.Interval

\* The body shared by markAlertSent and its per-family twins: no-op for an absent key.
SetAlertSentMutNoop(m, key) == m

SetAlertSentMutEveryKey(m, key) == [x \in DOMAIN m |-> [m[x] EXCEPT !.alertSent = TRUE]]

SetAlertSent(m, key) ==
    IF key \in DOMAIN m THEN [m EXCEPT ![key].alertSent = TRUE] ELSE m

markAlertSent(S, podKey) == [S EXCEPT !.pod = SetAlertSent(@, podKey)]

\* --------------------------------------------------------------- the sink
\* sendWebhookMessage on replica r: 1 when the HTTP request is issued, else 0.
sendWebhookMessageMutNoGate(r) == 1

sendWebhookMessage(r) == IF ~isLeader[r] THEN 0 ELSE 1

\* What one callback did for one family: calls of the sink for alerts and
\* for recoveries, and the requests that went out.
Tally0 == [alerts |-> 0, posts |-> 0, recov |-> 0, rposts |-> 0]

Add(n, d) == IF n + d < MaxCount THEN n + d ELSE MaxCount

Alerted(t, r) == [t EXCEPT !.alerts = Add(@, 1), !.posts = Add(@, sendWebhookMessage(r))]

Recovered(t, r) == [t EXCEPT !.recov = Add(@, 1), !.rposts = Add(@, sendWebhookMessage(r))]

\* ------------------------------------------------------------------- pods
\* corev1.ContainerState: at most one member is set (API validation).
Terminated(code) == [terminated |-> TRUE, exitCode |-> code, waiting |-> FALSE, running |-> FALSE]

Waiting == [terminated |-> FALSE, exitCode |-> 0, waiting |-> TRUE, running |-> FALSE]

Running == [terminated |-> FALSE, exitCode |-> 0, waiting |-> FALSE, running |-> TRUE]

ContainerStates == {Terminated(137), Waiting, Running}

\* pod.Status.ContainerStatuses: up to MaxContainers containers that failed, wait
\* or run, and a pod whose one container completed with exit code 0.
PodObjects ==
    UNION {[1..n -> ContainerStates] : n \in 0..MaxContainers} \cup {<<Terminated(0)>>}

ContainerFailed(i) == <<"Container c1 has failed", "Container c2 has failed",
                        "Container c3 has failed", "Container c4 has failed">>[i]

ContainerWaiting(i) == <<"Container c1 is waiting", "Container c2 is waiting",
                         "Container c3 is waiting", "Container c4 is waiting">>[i]

\* handleTerminatedContainer / handleWaitingContainer: one call of the sink.
handleTerminatedContainer(t, r) == Alerted(t, r)

handleWaitingContainer(t, r) == Alerted(t, r)

handleRunningContainer(S, t, r, podKey) ==
    LET prevState == Lookup(S.pod, podKey)
    IN  IF prevState.exists /\ prevState.hasError THEN Recovered(t, r) ELSE t

processContainerStatusMutLastVerdict(a, r, podKey, i, c) ==
    LET isTerm == c.terminated /\ c.exitCode # 0
        g1 == isTerm /\ shouldSendAlert(a.S, "pod", podKey)
        S1 == IF g1 THEN markAlertSent(a.S, podKey) ELSE a.S
        t1 == IF g1 THEN handleTerminatedContainer(a.t, r) ELSE a.t
        g2 == c.waiting /\ shouldSendAlert(S1, "pod", podKey)
        S2 == IF g2 THEN markAlertSent(S1, podKey) ELSE S1
        t2 == IF g2 THEN handleWaitingContainer(t1, r) ELSE t1
        state == Lookup(S2.pod, podKey)
        g3 == c.running /\ state.exists /\ state.hasError /\ state.alertSent
        t3 == IF g3 THEN handleRunningContainer(S2, t2, r, podKey) ELSE t2
    IN  [S |-> S2, t |-> t3,
         hasError |-> isTerm \/ c.waiting,
         msg |-> IF c.waiting THEN ContainerWaiting(i)
                 ELSE IF isTerm THEN ContainerFailed(i) ELSE a.msg]

\* processContainerStatus for container i of the pod; a is the callback so far:
\* the stores, the tally, and handlePod's hasError and errorMessage.
processContainerStatus(a, r, podKey, i, c) ==
    LET isTerm == c.terminated /\ c.exitCode # 0
        g1 == isTerm /\ shouldSendAlert(a.S, "pod", podKey)
        S1 == IF g1 THEN markAlertSent(a.S, podKey) ELSE a.S
        t1 == IF g1 THEN handleTerminatedContainer(a.t, r) ELSE a.t
        g2 == c.waiting /\ shouldSendAlert(S1, "pod", podKey)
        S2 == IF g2 THEN markAlertSent(S1, podKey) ELSE S1
        t2 == IF g2 THEN handleWaitingContainer(t1, r) ELSE t1
        state == Lookup(S2.pod, podKey)
        g3 == c.running /\ state.exists /\ state.hasError /\ state.alertSent
        t3 == IF g3 THEN handleRunningContainer(S2, t2, r, podKey) ELSE t2
    IN  [S |-> S2, t |-> t3,
         hasError |-> a.hasError \/ isTerm \/ c.waiting,
         msg |-> IF c.waiting THEN ContainerWaiting(i)
                 ELSE IF isTerm THEN ContainerFailed(i) ELSE a.msg]

RECURSIVE ContainerLoop(_, _, _, _, _)
ContainerLoop(a, r, podKey, pod, i) ==
    IF i > Len(pod) THEN a
    ELSE ContainerLoop(processContainerStatus(a, r, podKey, i, pod[i]), r, podKey, pod, i + 1)

updatePodStateMutRearm(m, podKey, hasError, errorMessage) ==
    IF podKey \notin DOMAIN m
    THEN Put(m, podKey, unitState(hasError, now, errorMessage, now, FALSE))
    ELSE LET prevState == m[podKey]
             fe == IF hasError /\ ~prevState.hasError THEN now
                   ELSE IF ~hasError THEN ZeroTime ELSE prevState.firstError
         IN  Put(m, podKey, unitState(hasError, now, errorMessage, fe, FALSE))

updatePodStateMutEvictHealthy(m, podKey, hasError, errorMessage) ==
    IF ~hasError THEN [x \in DOMAIN m \ {podKey} |-> m[x]]
    ELSE IF podKey \notin DOMAIN m
    THEN Put(m, podKey, unitState(hasError, now, errorMessage, now, FALSE))
    ELSE LET prevState == m[podKey]
         IN  Put(m, podKey, unitState(hasError, now, errorMessage,
                                      IF ~prevState.hasError THEN now ELSE prevState.firstError,
                                      prevState.hasError /\ prevState.alertSent))

updatePodState(m, podKey, hasError, errorMessage) ==
    IF podKey \notin DOMAIN m
    THEN Put(m, podKey, unitState(hasError, now, errorMessage, now, FALSE))
    ELSE LET prevState == m[podKey]
             fe == IF hasError /\ ~prevState.hasError THEN now
                   ELSE IF ~hasError THEN ZeroTime ELSE prevState.firstError
             as == IF hasError /\ ~prevState.hasError THEN FALSE
                   ELSE IF ~hasError THEN FALSE ELSE prevState.alertSent
         IN  Put(m, podKey, unitState(hasError, now, errorMessage, fe, as))

\* ------------------------------------------------------------------ nodes
CondStatus == {"absent", "True", "False", "Unknown"}

\* calculateNodeResourceUsage's result when the callback runs: an API error, or
\* allocatable CPU and the summed requests of the node's pods, in millicores.
NodeUsages ==
    {[err |-> TRUE, cpuCapacity |-> 0, cpuRequests |-> 0],
     [err |-> FALSE, cpuCapacity |-> 0, cpuRequests |-> 500],
     [err |-> FALSE, cpuCapacity |-> 1000, cpuRequests |-> 500],
     [err |-> FALSE, cpuCapacity |-> 1000, cpuRequests |-> 550],
     [err |-> FALSE, cpuCapacity |-> 1000, cpuRequests |-> 900],
     [err |-> FALSE, cpuCapacity |-> 1000, cpuRequests |-> 950]}

Node(ready, memory, disk, usage) ==
    [ready |-> ready, memory |-> memory, disk |-> disk, usage |-> usage]

\* The Ready, MemoryPressure and DiskPressure conditions of node.Status.Conditions
\* in every combination when the node conditions are exercised; a healthy node
\* with every usage when the node resources are.
NodeObjects ==
    IF source = "node"
    THEN {Node(rd, mem, dsk, u) :
            rd \in CondStatus, mem \in CondStatus, dsk \in CondStatus,
            u \in {x \in NodeUsages : x.err}}
    ELSE {Node("True", "False", "False", u) : u \in NodeUsages}

markNodeAlertSent(S, nodeKey) == [S EXCEPT !.node = SetAlertSent(@, nodeKey)]

handleNodeAlert(t, r) == Alerted(t, r)

handleNodeRecovery(t, r) == Recovered(t, r)

\* One `if cond unhealthy { ...; if shouldSendAlert { handleNodeAlert; mark } }` block.
NodeConditionBlock(a, r, nodeKey, unhealthy, message) ==
    LET g == unhealthy /\ shouldSendAlert(a.S, "node", nodeKey)
    IN  [S |-> IF g THEN markNodeAlertSent(a.S, nodeKey) ELSE a.S,
         t |-> IF g THEN handleNodeAlert(a.t, r) ELSE a.t,
         hasError |-> a.hasError \/ unhealthy,
         msg |-> IF unhealthy THEN message ELSE a.msg]

processNodeStatusMutReadyOnly(S, r, nodeKey, node) ==
    LET a0 == [S |-> S, t |-> Tally0, hasError |-> FALSE, msg |-> ""]
        a1 == NodeConditionBlock(a0, r, nodeKey,
                                 node.ready \in {"False", "Unknown"}, "Node not Ready")
        a2 == NodeConditionBlock(a1, r, nodeKey,
                                 node.memory = "True", "Node under MemoryPressure")
        a3 == NodeConditionBlock(a2, r, nodeKey,
                                 node.disk = "True", "Node under DiskPressure")
        state == Lookup(a3.S.node, nodeKey)
        healthy == node.ready = "True"
        rec == healthy /\ state.exists /\ state.hasError /\ state.alertSent
    IN  [a3 EXCEPT !.t = IF rec THEN handleNodeRecovery(@, r) ELSE @]

processNodeStatus(S, r, nodeKey, node) ==
    LET a0 == [S |-> S, t |-> Tally0, hasError |-> FALSE, msg |-> ""]
        a1 == NodeConditionBlock(a0, r, nodeKey,
                                 node.ready \in {"False", "Unknown"}, "Node not Ready")
        a2 == NodeConditionBlock(a1, r, nodeKey,
                                 node.memory = "True", "Node under MemoryPressure")
        a3 == NodeConditionBlock(a2, r, nodeKey,
                                 node.disk = "True", "Node under DiskPressure")
        state == Lookup(a3.S.node, nodeKey)
        healthy == /\ node.ready = "True"
                   /\ node.memory \in {"absent", "False"}
                   /\ node.disk \in {"absent", "False"}
        rec == healthy /\ state.exists /\ state.hasError /\ state.alertSent
    IN  [a3 EXCEPT !.t = IF rec THEN handleNodeRecovery(@, r) ELSE @]

updateNodeStateMutKeepSent(m, nodeKey, hasError, errorMessage) ==
    IF nodeKey \notin DOMAIN m
    THEN Put(m, nodeKey, unitState(hasError, now, errorMessage, now, FALSE))
    ELSE LET prevState == m[nodeKey]
             fe == IF hasError /\ ~prevState.hasError THEN now
                   ELSE IF ~hasError THEN ZeroTime ELSE prevState.firstError
             as == IF hasError /\ ~prevState.hasError THEN FALSE
                   ELSE prevState.alertSent
         IN  Put(m, nodeKey, unitState(hasError, now, errorMessage, fe, as))

updateNodeState(m, nodeKey, hasError, errorMessage) ==
    IF nodeKey \notin DOMAIN m
    THEN Put(m, nodeKey, unitState(hasError, now, errorMessage, now, FALSE))
    ELSE LET prevState == m[nodeKey]
             fe == IF hasError /\ ~prevState.hasError THEN now
                   ELSE IF ~hasError THEN ZeroTime ELSE prevState.firstError
             as == IF hasError /\ ~prevState.hasError THEN FALSE
                   ELSE IF ~hasError THEN FALSE ELSE prevState.alertSent
         IN  Put(m, nodeKey, unitState(hasError, now, errorMessage, fe, as))

\* --------------------------------------------------------- node resources
nodeResourceState(u, cpuCapacity, cpuRequests, cpuUsagePercent) ==
    [hasError |-> u.hasError, lastSeen |-> u.lastSeen, lastMessage |-> u.lastMessage,
     firstError |-> u.firstError, alertSent |-> u.alertSent,
     cpuCapacity |-> cpuCapacity, cpuRequests |-> cpuRequests,
     cpuUsagePercent |-> cpuUsagePercent]

\* The arms shared by updateNodeResourceState and the five updateLonghorn*State:
\* firstError and alertSent of the record that replaces m[key].
NextFirstErrorMutReset(m, key, hasError) ==
    IF hasError THEN now ELSE IF key \notin DOMAIN m THEN now ELSE ZeroTime

NextFirstError(m, key, hasError) ==
    IF key \notin DOMAIN m THEN now
    ELSE IF hasError /\ ~m[key].hasError THEN now
    ELSE IF ~hasError THEN ZeroTime
    ELSE m[key].firstError

NextAlertSent(m, key, hasError) ==
    IF key \notin DOMAIN m THEN FALSE
    ELSE IF hasError /\ ~m[key].hasError THEN FALSE
    ELSE IF ~hasError THEN FALSE
    ELSE m[key].alertSent

updateNodeResourceState(m, nodeName, hasError, errorMessage, cpuCapacity, cpuRequests, cpuUsagePercent) ==
    Put(m, nodeName,
        nodeResourceState(unitState(hasError, now, errorMessage,
                                    NextFirstError(m, nodeName, hasError),
                                    NextAlertSent(m, nodeName, hasError)),
                          cpuCapacity, cpuRequests, cpuUsagePercent))

markNodeResourceAlertSent(S, nodeName) ==
    [S EXCEPT !.node_resource = SetAlertSent(@, nodeName)]

\* A float64 that is a whole number (excess 0) or the double next above it
\* (excess 1).
Float64(whole, excess) == [whole |-> whole, excess |-> excess]

\* The requests and capacities whose quotient, rounded to a double and then
\* multiplied by 100, gives the double next above the whole percent:
\* 550.0 / 1000.0 * 100 = 55.00000000000001.
RoundedUp == {<<550, 1000>>}

\* cpuUsagePercent: float64(cpuRequests) / float64(cpuCapacity) * 100 in float64
\* arithmetic, 0 without capacity.  NodeUsages are whole percents.
CpuUsagePercent(u) ==
    IF u.cpuCapacity > 0
    THEN Float64((u.cpuRequests * 100) \div u.cpuCapacity,
                 IF <<u.cpuRequests, u.cpuCapacity>> \in RoundedUp THEN 1 ELSE 0)
    ELSE Float64(0, 0)

\* cpuUsagePercent > config.NodeMonitoring.CPUThresholdPercent, the threshold
\* being a whole number.
Exceeds(cpuUsagePercent, threshold) ==
    \/ cpuUsagePercent.whole > threshold
    \/ cpuUsagePercent.whole = threshold /\ cpuUsagePercent.excess > 0

\* fmt.Sprintf("CPU usage %.1f%% exceeds threshold %.1f%%", ...), in whole percents.
CpuMessage(cpuUsagePercent, threshold) ==
    "CPU usage " \o ToString(cpuUsagePercent.whole) \o "% exceeds threshold "
        \o ToString(threshold) \o "%"

\* processNodeResourceUsage past its two early returns: the stores and the tally.
processNodeResourceUsage(S, r, nodeName, u) ==
    LET cpuUsagePercent == CpuUsagePercent(u)
        threshold == config.NodeMonitoring.CPUThresholdPercent
        hasError == Exceeds(cpuUsagePercent, threshold)
        g == hasError /\ shouldSendAlert(S, "node_resource", nodeName)
        S1 == IF g THEN markNodeResourceAlertSent(S, nodeName) ELSE S
        t1 == IF g THEN Alerted(Tally0, r) ELSE Tally0
        prevState == IF nodeName \in DOMAIN S1.node_resource
                     THEN S1.node_resource[nodeName]
                     ELSE nodeResourceState(unitState(FALSE, ZeroTime, "", ZeroTime, FALSE),
                                            0, 0, Float64(0, 0))
        rec == /\ ~hasError
               /\ nodeName \in DOMAIN S1.node_resource
               /\ prevState.hasError /\ prevState.alertSent
               /\ Exceeds(prevState.cpuUsagePercent, threshold)
        t2 == IF rec THEN Recovered(t1, r) ELSE t1
    IN  [S |-> [S1 EXCEPT !.node_resource =
                    updateNodeResourceState(@, nodeName, hasError,
                        IF hasError THEN CpuMessage(cpuUsagePercent, threshold) ELSE "",
                        u.cpuCapacity, u.cpuRequests, cpuUsagePercent)],
         t |-> t2, hasError |-> hasError,
         msg |-> IF hasError THEN CpuMessage(cpuUsagePercent, threshold) ELSE ""]

\* --------------------------------------------------------------- Longhorn
\* Sizes are counted in MiB.
longhornUnitState(u, resourceType, capacity, usage, robustness) ==
    [hasError |-> u.hasError, lastSeen |-> u.lastSeen, lastMessage |-> u.lastMessage,
     firstError |-> u.firstError, alertSent |-> u.alertSent,
     resourceType |-> resourceType, capacity |-> capacity, usage |-> usage,
     robustness |-> robustness]

\* L is one replica's five Longhorn maps, by kind.
shouldSendLonghornAlertMutResend(L, resourceType, key) ==
    LET st == IF resourceType \in LonghornKinds THEN Lookup(L[resourceType], key)
              ELSE Lookup(<<>>, key)
    IN  IF ~st.exists \/ ~st.hasError THEN FALSE
        ELSE IF config.Interval = 0 THEN TRUE
        ELSE Since(st.firstError) >= config.Interval

shouldSendLonghornAlert(L, resourceType, key) ==
    LET st == IF resourceType \in LonghornKinds THEN Lookup(L[resourceType], key)
              ELSE Lookup(<<>>, key)
    IN  IF ~st.exists \/ ~st.hasError \/ st.alertSent THEN FALSE
        ELSE IF config.Interval = 0 THEN TRUE
        ELSE Since(st.firstError) >= config.Interval

markLonghornAlertSent(L, resourceType, key) ==
    IF resourceType \in LonghornKinds
    THEN [L EXCEPT ![resourceType] = SetAlertSent(@, key)]
    ELSE L

\* updateLonghornVolumeState, ...ReplicaState, ...EngineState, ...NodeState and
\* ...BackupState differ only in the map and the extra fields they store.
updateLonghornState(L, resourceType, key, hasError, errorMessage, capacity, usage, robustness) ==
    [L EXCEPT ![resourceType] =
        Put(@, key,
            longhornUnitState(unitState(hasError, now, errorMessage,
                                        NextFirstError(@, key, hasError),
                                        NextAlertSent(@, key, hasError)),
                              resourceType, capacity, usage, robustness))]

\* checkLonghornVolumeRecovery and its four twins.
checkLonghornRecovery(L, t, r, resourceType, key) ==
    LET prevState == Lookup(L[resourceType], key)
    IN  IF prevState.exists /\ prevState.hasError /\ prevState.alertSent
        THEN Recovered(t, r) ELSE t

\* The tail of every processLonghorn*Status: update the state, then alert or
\* check for recovery.  mayRecover is `state == "Completed"` for backups.
LonghornVerdict(L, r, resourceType, key, hasError, errorMessage, capacity, usage, robustness, mayRecover) ==
    LET L1 == updateLonghornState(L, resourceType, key, hasError, errorMessage,
                                  capacity, usage, robustness)
        g == hasError /\ shouldSendLonghornAlert(L1, resourceType, key)
    IN  IF g
        THEN [L |-> markLonghornAlertSent(L1, resourceType, key),
              t |-> Alerted(Tally0, r), hasError |-> hasError]
        ELSE IF ~hasError /\ mayRecover
        THEN [L |-> L1, t |-> checkLonghornRecovery(L1, Tally0, r, resourceType, key),
              hasError |-> hasError]
        ELSE [L |-> L1, t |-> Tally0, hasError |-> hasError]

\* The volumes delivered to handleLonghornVolume: status.state and
\* status.robustness in every combination without sizes, an attached healthy
\* volume with each of the sizes (spec.size, status.actualSize), and an object
\* without a status or without a spec.
VolumeSizes == {<<10240, 1024>>, <<10240, 9216>>, <<2048, 1200>>, <<10240, 0>>, <<0, 9216>>}

VolumeObjects ==
    {[status |-> TRUE, spec |-> TRUE, state |-> st, robustness |-> rb,
      capacity |-> 0, actualSize |-> 0] :
        st \in {"attached", "detached", "attaching", "error", ""},
        rb \in {"healthy", "degraded", "faulted"}}
    \cup {[status |-> TRUE, spec |-> TRUE, state |-> "attached", robustness |-> "healthy",
           capacity |-> sz[1], actualSize |-> sz[2]] : sz \in VolumeSizes}
    \cup {[status |-> st, spec |-> TRUE, state |-> "attached", robustness |-> "faulted",
           capacity |-> 0, actualSize |-> 0] : st \in {FALSE}}
    \cup {[status |-> TRUE, spec |-> sp, state |-> "attached", robustness |-> "faulted",
           capacity |-> 0, actualSize |-> 0] : sp \in {FALSE}}

VolumeClassMutNoCapacityCheck(v) ==
    IF v.state \in {"detached", "attached"}
    THEN IF v.robustness = "degraded" THEN <<TRUE, "Volume is degraded">>
         ELSE IF v.robustness = "faulted" THEN <<TRUE, "Volume is faulted">>
         ELSE <<FALSE, "">>
    ELSE IF v.state \in {"creating", "attaching", "detaching"} THEN <<FALSE, "">>
    ELSE <<TRUE, "Volume in unknown state">>

\* hasError and errorMessage as processLonghornVolumeStatus computes them.
VolumeClass(v) ==
    LET byState ==
            IF v.state \in {"detached", "attached"}
            THEN IF v.robustness = "degraded" THEN <<TRUE, "Volume is degraded">>
                 ELSE IF v.robustness = "faulted" THEN <<TRUE, "Volume is faulted">>
                 ELSE <<FALSE, "">>
            ELSE IF v.state \in {"creating", "attaching", "detaching"} THEN <<FALSE, "">>
            ELSE <<TRUE, "Volume in unknown state">>
        sized == v.capacity > 0 /\ v.actualSize > 0
        remaining == v.capacity - v.actualSize
    IN  IF sized /\ v.actualSize * 100 > config.Longhorn.AlertThresholds.VolumeUsagePercent * v.capacity
        THEN <<TRUE, "Volume usage critical">>
        ELSE IF sized /\ remaining < config.Longhorn.AlertThresholds.VolumeCapacityCritical
        THEN <<TRUE, "Volume capacity critical">>
        ELSE byState

processLonghornVolumeStatus(L, r, key, v) ==
    LonghornVerdict(L, r, "volume", key, VolumeClass(v)[1], VolumeClass(v)[2],
                    v.capacity, v.actualSize, v.robustness, TRUE)

\* handleLonghornVolume returns before processLonghornVolumeStatus when the
\* object has no status or no spec.
handleLonghornVolume(L, r, key, o) ==
    IF ~o.status \/ ~o.spec
    THEN [L |-> L, t |-> Tally0, hasError |-> FALSE, returned |-> TRUE]
    ELSE processLonghornVolumeStatus(L, r, key, o)

InstanceObjects == [currentState : {"running", "stopped", "error", "starting", "gone"}]

\* hasError and errorMessage of processLonghornReplicaStatus / ...EngineStatus.
InstanceClass(what, o) ==
    IF o.currentState = "running" THEN <<FALSE, "">>
    ELSE IF o.currentState = "stopped" THEN <<TRUE, what \o " in stopped state">>
    ELSE IF o.currentState = "error" THEN <<TRUE, what \o " in error state">>
    ELSE IF o.currentState \in {"starting", "stopping"} THEN <<FALSE, "">>
    ELSE <<TRUE, what \o " in unknown state">>

processLonghornReplicaStatus(L, r, key, o) ==
    LonghornVerdict(L, r, "replica", key, InstanceClass("Replica", o)[1],
                    InstanceClass("Replica", o)[2], 0, 0, "", TRUE)

processLonghornEngineStatus(L, r, key, o) ==
    LonghornVerdict(L, r, "engine", key, InstanceClass("Engine", o)[1],
                    InstanceClass("Engine", o)[2], 0, 0, "", TRUE)

\* status.conditions of a Longhorn node: the Ready and Schedulable entries, in that order.
LonghornNodeObjects == [ready : {"True", "False"}, schedulable : {"True", "False"}]

LonghornNodeClass(o) ==
    IF o.schedulable # "True" THEN <<TRUE, "Node not schedulable">>
    ELSE IF o.ready # "True" THEN <<TRUE, "Node not ready">>
    ELSE <<FALSE, "">>

processLonghornNodeStatus(L, r, key, o) ==
    LonghornVerdict(L, r, "node", key, LonghornNodeClass(o)[1], LonghornNodeClass(o)[2],
                    0, 0, "", TRUE)

BackupObjects == [state : {"Completed", "Error", "InProgress", "Unknown"}]

BackupClass(o) ==
    IF o.state = "Completed" THEN <<FALSE, "">>
    ELSE IF o.state = "Error" THEN <<TRUE, "Backup failed">>
    ELSE IF o.state \in {"InProgress", "Pending"} THEN <<FALSE, "">>
    ELSE <<TRUE, "Backup in unknown state">>

processLonghornBackupStatus(L, r, key, o) ==
    LonghornVerdict(L, r, "backup", key, BackupClass(o)[1], BackupClass(o)[2],
                    0, 0, "", o.state = "Completed")

LonghornObjects(kind) ==
    CASE kind = "volume" -> VolumeObjects
      [] kind \in {"replica", "engine"} -> InstanceObjects
      [] kind = "node" -> LonghornNodeObjects
      [] kind = "backup" -> BackupObjects

processLonghornStatus(L, r, kind, key, o) ==
    CASE kind = "volume" -> handleLonghornVolume(L, r, key, o)
      [] kind = "replica" -> processLonghornReplicaStatus(L, r, key, o)
      [] kind = "engine" -> processLonghornEngineStatus(L, r, key, o)
      [] kind = "node" -> processLonghornNodeStatus(L, r, key, o)
      [] kind = "backup" -> processLonghornBackupStatus(L, r, key, o)

\* ----------------------------------------------------------------- GitOps
RepoName == "infra"

gitOpsState(u, repositoryName, mismatchType) ==
    [hasError |-> u.hasError, lastSeen |-> u.lastSeen, lastMessage |-> u.lastMessage,
     firstError |-> u.firstError, alertSent |-> u.alertSent,
     repositoryName |-> repositoryName, mismatchType |-> mismatchType]

updateGitOpsStateMutNoRearm(m, key, hasError, errorMessage, repositoryName, mismatchType) ==
    LET exists == key \in DOMAIN m
        prevState == Lookup(m, key)
        reset == ~exists \/ (~prevState.hasError /\ hasError)
        keep == ~reset /\ exists /\ prevState.hasError
        fe == IF reset THEN now ELSE IF keep THEN prevState.firstError ELSE ZeroTime
        as == IF reset THEN FALSE ELSE IF keep THEN prevState.alertSent ELSE FALSE
    IN  Put(m, key, gitOpsState(unitState(hasError, now, errorMessage, fe, as),
                                repositoryName, mismatchType))

updateGitOpsState(m, key, hasError, errorMessage, repositoryName, mismatchType) ==
    LET exists == key \in DOMAIN m
        prevState == Lookup(m, key)
        reset == \/ ~exists
                 \/ (~prevState.hasError /\ hasError)
                 \/ (prevState.hasError /\ prevState.lastMessage # errorMessage)
        keep == ~reset /\ exists /\ prevState.hasError
        fe == IF reset THEN now ELSE IF keep THEN prevState.firstError ELSE ZeroTime
        as == IF reset THEN FALSE ELSE IF keep THEN prevState.alertSent ELSE FALSE
    IN  Put(m, key, gitOpsState(unitState(hasError, now, errorMessage, fe, as),
                                repositoryName, mismatchType))

\* `for _, repo := range config.GitOps.Repositories`: some entry of that name has alerts off.
RepoAlertsOff(repositoryName) ==
    \E i \in DOMAIN config.GitOps.Repositories :
        /\ config.GitOps.Repositories[i].Name = repositoryName
        /\ ~config.GitOps.Repositories[i].AlertOnMismatch

shouldSendGitOpsAlertMutIgnoreRepo(m, key) ==
    LET st == Lookup(m, key)
    IN  IF ~st.exists \/ ~st.hasError \/ st.alertSent THEN FALSE
        ELSE IF ~config.GitOps.AlertOnMismatch THEN FALSE
        ELSE IF config.Interval = 0 THEN TRUE
        ELSE Since(st.firstError) >= config.Interval

shouldSendGitOpsAlert(m, key) ==
    LET st == Lookup(m, key)
    IN  IF ~st.exists \/ ~st.hasError \/ st.alertSent THEN FALSE
        ELSE IF ~config.GitOps.AlertOnMismatch THEN FALSE
        ELSE IF RepoAlertsOff(m[key].repositoryName) THEN FALSE
        ELSE IF config.Interval = 0 THEN TRUE
        ELSE Since(st.firstError) >= config.Interval

markGitOpsAlertSentMutNoop(m, key) == m

markGitOpsAlertSent(m, key) == SetAlertSent(m, key)

\* fmt.Sprintf("Resource %s: %s", mismatchType, getResourceDescription(...))
MismatchMessage(mismatchType) ==
    IF mismatchType = "missing" THEN "Resource missing: is missing from cluster"
    ELSE IF mismatchType = "different" THEN "Resource different: differs between Git and cluster"
    ELSE IF mismatchType = "extra" THEN "Resource extra: exists in cluster but not in Git"
    ELSE "Resource unknown"

processGitOpsMismatch(m, r, key, mismatchType) ==
    LET m1 == updateGitOpsState(m, key, TRUE, MismatchMessage(mismatchType),
                                RepoName, mismatchType)
        g == shouldSendGitOpsAlert(m1, key)
    IN  [m |-> IF g THEN markGitOpsAlertSent(m1, key) ELSE m1,
         t |-> IF g THEN Alerted(Tally0, r) ELSE Tally0,
         seen |-> TRUE, hasError |-> TRUE, msg |-> MismatchMessage(mismatchType)]

checkGitOpsRecovery(m, t, r, key) ==
    LET prevState == Lookup(m, key)
    IN  IF prevState.exists /\ prevState.hasError /\ prevState.alertSent
        THEN Recovered(t, r) ELSE t

processGitOpsMatch(m, r, key) ==
    [m |-> updateGitOpsState(m, key, FALSE, "", RepoName, ""),
     t |-> checkGitOpsRecovery(m, Tally0, r, key),
     seen |-> TRUE, hasError |-> FALSE, msg |-> ""]

\* What the cluster answers for one rendered manifest: whether its kind is in the
\* GVR cache, the live GET, the server-side dry-run, and resourcesEqual on its result.
Comparison(known, get, dryRun, equal) ==
    [gvr |-> known, get |-> get, dryRun |-> dryRun, equal |-> equal]

NoComparison == Comparison(FALSE, "error", "fail", FALSE)

Comparisons ==
    {NoComparison, Comparison(TRUE, "error", "fail", FALSE),
     Comparison(TRUE, "notfound", "fail", FALSE), Comparison(TRUE, "found", "fail", FALSE),
     Comparison(TRUE, "found", "ok", TRUE), Comparison(TRUE, "found", "ok", FALSE)}

resourcesAreDifferentMutAlways(c) == TRUE

resourcesAreDifferentMutFailDiffers(c) == IF c.dryRun = "fail" THEN TRUE ELSE ~c.equal

resourcesAreDifferent(c) == IF c.dryRun = "fail" THEN FALSE ELSE ~c.equal

compareManifestWithCluster(m, r, key, c) ==
    IF ~c.gvr \/ c.get = "error"
    THEN [m |-> m, t |-> Tally0, seen |-> FALSE, hasError |-> FALSE, msg |-> ""]
    ELSE IF c.get = "notfound" THEN processGitOpsMismatch(m, r, key, "missing")
    ELSE IF resourcesAreDifferent(c) THEN processGitOpsMismatch(m, r, key, "different")
    ELSE processGitOpsMatch(m, r, key)

\* `rendered` is what generateKustomizeManifests gave: "error", or a manifest list
\* "with" or "without" the resource of `key`.
Renderings == {"error", "with", "without"}

compareManifests(m, r, key, rendered, c) ==
    IF rendered = "with" THEN compareManifestWithCluster(m, r, key, c)
    ELSE [m |-> m, t |-> Tally0, seen |-> FALSE, hasError |-> FALSE, msg |-> ""]

\* ---------------------------------------------------------------- history
Ep0 == [open |-> FALSE, onset |-> ZeroTime, alerts |-> 0, posts |-> 0, recov |-> 0,
        rposts |-> 0, msg |-> "", run |-> 0, marked |-> 0]

\* The episode after an observation with verdict hasError whose callback did t.
\* An episode opens at an error observation that follows none, a healthy one or a
\* delete; `run` counts the alerts since the error message last changed, and
\* `marked` the times the gate passed and the key was marked sent since the last
\* Upsert with a healthy verdict.
EpNext(e, hasError, msg, t) ==
    LET b == IF hasError /\ ~e.open THEN [Ep0 EXCEPT !.onset = now] ELSE e
        sameRun == e.open /\ e.msg = msg
    IN  [open |-> hasError, onset |-> b.onset,
         alerts |-> Add(b.alerts, t.alerts), posts |-> Add(b.posts, t.posts),
         recov |-> Add(b.recov, t.recov), rposts |-> Add(b.rposts, t.rposts),
         msg |-> msg,
         run |-> Add(IF hasError /\ sameRun THEN b.run ELSE 0, t.alerts),
         marked |-> IF hasError THEN Add(e.marked, t.alerts) ELSE 0]

\* What a callback found in its store for the key before it acted.
Pre(m, key) ==
    [exists |-> Lookup(m, key).exists, hasError |-> Lookup(m, key).hasError,
     alertSent |-> Lookup(m, key).alertSent]

NoEvent == [kind |-> "none", rep |-> "", time |-> ZeroTime, hasError |-> FALSE,
            t |-> Tally0, leader |-> FALSE, pre |-> Pre(<<>>, ""), running |-> 0]

\* running: how many containers of the pod the callback saw Running (pods only).
Event(r, hasError, t, pre, running) ==
    [kind |-> "upsert", rep |-> r, time |-> now, hasError |-> hasError, t |-> t,
     leader |-> isLeader[r], pre |-> pre, running |-> running]

RunningContainers(pod) == Cardinality({i \in DOMAIN pod : pod[i].running})

Deleted(r) == [NoEvent EXCEPT !.kind = "delete", !.rep = r, !.time = now]

\* A delete event whose handler returned at its type assertion.
Unhandled(r) == [NoEvent EXCEPT !.kind = "unhandled delete", !.rep = r, !.time = now]

\* ---------------------------------------------------------------- actions
handlePod(S, r, podKey, pod) ==
    LET a == ContainerLoop([S |-> S, t |-> Tally0, hasError |-> FALSE, msg |-> ""],
                           r, podKey, pod, 1)
    IN  [a EXCEPT !.S.pod = updatePodState(@, podKey, a.hasError, a.msg)]

PodEvent(r) ==
    /\ source = "pod"
    /\ \E k \in Keys, pod \in PodObjects :
        \E a \in {handlePod(Stores(r), r, k, pod)} :
            /\ podStates' = [podStates EXCEPT ![r] = a.S.pod]
            /\ ep' = [ep EXCEPT ![r]["pod"][k] = EpNext(@, a.hasError, a.msg, a.t)]
            /\ last' = [last EXCEPT !["pod"][k] =
                            Event(r, a.hasError, a.t, Pre(podStates[r], k),
                                  RunningContainers(pod))]
    /\ UNCHANGED <<now, config, isLeader, election, source, gvr, nodeStates, nodeResourceStates,
                   longhornStates, gitOpsStates, worker, repoState, feed>>

\* handleNode: processNodeStatus, updateNodeState, then processNodeResourceUsage,
\* which returns early when node monitoring is off or the usage cannot be read.
handleNode(S, r, nodeKey, node) ==
    LET a == processNodeStatus(S, r, nodeKey, node)
        S2 == [a.S EXCEPT !.node = updateNodeState(@, nodeKey, a.hasError, a.msg)]
        skip == ~config.NodeMonitoring.Enabled \/ node.usage.err
        b == processNodeResourceUsage(S2, r, nodeKey, node.usage)
    IN  [S |-> IF skip THEN S2 ELSE b.S, node |-> a, skip |-> skip,
         res |-> IF skip THEN [t |-> Tally0, hasError |-> FALSE, msg |-> ""]
                 ELSE [t |-> b.t, hasError |-> b.hasError, msg |-> b.msg]]

NodeEvent(r) ==
    /\ source \in {"node", "node_resource"}
    /\ \E k \in Keys, node \in NodeObjects :
        \E h \in {handleNode(Stores(r), r, k, node)} :
        LET resMsg == h.res.msg
        IN  /\ nodeStates' = [nodeStates EXCEPT ![r] = h.S.node]
            /\ nodeResourceStates' = [nodeResourceStates EXCEPT ![r] = h.S.node_resource]
            /\ ep' = [ep EXCEPT ![r]["node"][k] = EpNext(@, h.node.hasError, h.node.msg, h.node.t),
                                ![r]["node_resource"][k] =
                                    IF h.skip THEN @ ELSE EpNext(@, h.res.hasError, resMsg, h.res.t)]
            /\ last' = [last EXCEPT
                          !["node"][k] = Event(r, h.node.hasError, h.node.t,
                                               Pre(nodeStates[r], k), 0),
                          !["node_resource"][k] =
                              IF h.skip THEN @
                              ELSE Event(r, h.res.hasError, h.res.t,
                                         Pre(nodeResourceStates[r], k), 0)]
    /\ UNCHANGED <<now, config, isLeader, election, source, gvr, podStates,
                   longhornStates, gitOpsStates, worker, repoState, feed>>

\* handleLonghornVolume and its four twins, for an object that has a status.
LonghornEvent(r) ==
    /\ source \in LonghornFamilies
    /\ \E k \in Keys, o \in LonghornObjects(KindOf(source)) :
        \E a \in {processLonghornStatus(longhornStates[r], r, KindOf(source), k, o)} :
        LET msg == IF a.hasError THEN a.L[KindOf(source)][k].lastMessage ELSE ""
        IN  IF "returned" \in DOMAIN a
            THEN UNCHANGED <<longhornStates, ep, last>>
            ELSE /\ longhornStates' = [longhornStates EXCEPT ![r] = a.L]
                 /\ ep' = [ep EXCEPT ![r][source][k] = EpNext(@, a.hasError, msg, a.t)]
                 /\ last' = [last EXCEPT ![source][k] =
                                 Event(r, a.hasError, a.t,
                                       Pre(longhornStates[r][KindOf(source)], k), 0)]
    /\ UNCHANGED <<now, config, isLeader, election, source, gvr, podStates, nodeStates,
                   nodeResourceStates, gitOpsStates, worker, repoState, feed>>

\* handleLonghornVolumeDelete and its four twins.
\* ok is the handler's `obj.(*unstructured.Unstructured)`: false when the informer
\* delivers the delete as a cache.DeletedFinalStateUnknown, and the handler returns.
handleLonghornDelete(L, resourceType, key, ok) ==
    IF ~ok THEN L ELSE [L EXCEPT ![resourceType] = Remove(@, key)]

LonghornDelete(r) ==
    /\ source \in LonghornFamilies
    /\ \E k \in Keys, ok \in BOOLEAN :
        /\ longhornStates' = [longhornStates EXCEPT
                                 ![r] = handleLonghornDelete(@, KindOf(source), k, ok)]
        /\ ep' = IF ok
                 THEN [ep EXCEPT ![r][source][k] = [Ep0 EXCEPT !.marked = ep[r][source][k].marked]]
                 ELSE ep
        /\ last' = [last EXCEPT ![source][k] = IF ok THEN Deleted(r) ELSE Unhandled(r)]
    /\ UNCHANGED <<now, config, isLeader, election, source, gvr, podStates, nodeStates,
                   nodeResourceStates, gitOpsStates, worker, repoState, feed>>

\* A comparison that returned an error before any Upsert of the key.
Skipped(r, pre) ==
    [NoEvent EXCEPT !.kind = "skipped", !.rep = r, !.time = now, !.leader = isLeader[r],
                    !.pre = pre]

\* The record of a GitOps comparison, with what the cluster answered.
Compared(e, c) ==
    [c |-> c,
     global |-> config.GitOps.AlertOnMismatch,
     repo |-> ~RepoAlertsOff(RepoName)] @@ e

\* sync.RWMutex with nobody holding it.
Unlocked == [writer |-> FALSE, readers |-> 0]

\* ----------------------------------------------------------- the GVR cache
\* The goroutines of one process that call getGVRForKind: its repository workers.
Callers == {"w1", "w2"}
MaxResources == 3

\* The entries discovery can list: Kind, the group/version/resource of the list
\* it stands in, and whether its name is that of a subresource.
APIResources ==
    {[Kind |-> "Deployment", gvr |-> "apps/v1/deployments", sub |-> FALSE],
     [Kind |-> "Deployment", gvr |-> "apps/v1/deployments/status", sub |-> TRUE],
     [Kind |-> "Event", gvr |-> "v1/events", sub |-> FALSE],
     [Kind |-> "Event", gvr |-> "events.k8s.io/v1/events", sub |-> FALSE]}

ResourceKinds == {a.Kind : a \in APIResources} \cup {"Widget"}

\* What ServerPreferredResources can return, flattened in the order of the loops.
ResourceLists == UNION {[1..n -> APIResources] : n \in 0..MaxResources}

Idle == [pc |-> "idle", kind |-> "", found |-> FALSE, gvr |-> ""]

\* The process before any call of getGVRForKind.  resources is what
\* initializeGVRCache has still to go through; runs and first are history: the
\* calls of initializeGVRCache, and the first mapping written for each Kind.
NoGVRCache ==
    [gvrCache |-> <<>>, gvrCacheInit |-> "new", gvrCacheLock |-> Unlocked,
     resources |-> <<>>, calls |-> [w \in Callers |-> Idle], runs |-> 0, first |-> <<>>]

\* A worker calls getGVRForKind(kind) and arrives at gvrCacheInit.Do.
GetGVRForKind(w) ==
    /\ gvr.gvrCacheInit # "fatal"
    /\ gvr.calls[w].pc = "idle"
    /\ \E kind \in ResourceKinds :
            gvr' = [gvr EXCEPT !.calls[w] = [Idle EXCEPT !.pc = "do", !.kind = kind]]
    /\ UNCHANGED <<now, config, isLeader, election, source, stores, worker, repoState,
                   feed, ep, last>>

\* sync.Once.Do for the first caller: it runs initializeGVRCache, whose
\* ServerPreferredResources returns the lists or an error; on an error
\* log.Fatal ends the process.
DoInitialize(w) ==
    /\ gvr.calls[w].pc = "do"
    /\ gvr.gvrCacheInit = "new"
    /\ \/ \E lists \in ResourceLists :
            gvr' = [gvr EXCEPT !.gvrCacheInit = "running", !.runs = @ + 1,
                               !.resources = lists, !.calls[w].pc = "discovered"]
       \/ gvr' = [gvr EXCEPT !.gvrCacheInit = "fatal", !.runs = @ + 1]
    /\ UNCHANGED <<now, config, isLeader, election, source, stores, worker, repoState,
                   feed, ep, last>>

\* initializeGVRCache: gvrCacheLock.Lock().
LockCache(w) ==
    /\ gvr.gvrCacheInit = "running"
    /\ gvr.calls[w].pc = "discovered"
    /\ gvr.gvrCacheLock = Unlocked
    /\ gvr' = [gvr EXCEPT !.gvrCacheLock.writer = TRUE, !.calls[w].pc = "writing"]
    /\ UNCHANGED <<now, config, isLeader, election, source, stores, worker, repoState,
                   feed, ep, last>>

\* One pass of the inner loop of initializeGVRCache: gvrCache[apiResource.Kind] = gvr
\* unless the entry is a subresource.
CacheEntry(cache, a) == IF a.sub THEN cache ELSE Put(cache, a.Kind, a.gvr)

WriteEntry(w) ==
    /\ gvr.calls[w].pc = "writing"
    /\ gvr.resources # <<>>
    /\ LET a == Head(gvr.resources)
       IN  gvr' = [gvr EXCEPT !.gvrCache = CacheEntry(@, a),
                              !.first = IF a.sub \/ a.Kind \in DOMAIN @ THEN @
                                        ELSE Put(@, a.Kind, a.gvr),
                              !.resources = Tail(@)]
    /\ UNCHANGED <<now, config, isLeader, election, source, stores, worker, repoState,
                   feed, ep, last>>

\* initializeGVRCache returns: the deferred Unlock, and Do marks the Once done.
Initialized(w) ==
    /\ gvr.calls[w].pc = "writing"
    /\ gvr.resources = <<>>
    /\ gvr' = [gvr EXCEPT !.gvrCacheLock.writer = FALSE, !.gvrCacheInit = "done",
                          !.calls[w].pc = "lookup"]
    /\ UNCHANGED <<now, config, isLeader, election, source, stores, worker, repoState,
                   feed, ep, last>>

\* sync.Once.Do for a later caller: it returns once the first call has returned
\* (and blocks until then).
DoReturn(w) ==
    /\ gvr.calls[w].pc = "do"
    /\ gvr.gvrCacheInit = "done"
    /\ gvr' = [gvr EXCEPT !.calls[w].pc = "lookup"]
    /\ UNCHANGED <<now, config, isLeader, election, source, stores, worker, repoState,
                   feed, ep, last>>

\* getGVRForKind: the read of gvrCache[kind] under RLock, and the return.
LookupKind(w) ==
    /\ gvr.calls[w].pc = "lookup"
    /\ ~gvr.gvrCacheLock.writer
    /\ LET kind == gvr.calls[w].kind
           exists == kind \in DOMAIN gvr.gvrCache
       IN  gvr' = [gvr EXCEPT !.calls[w] =
                        [pc |-> "idle", kind |-> kind, found |-> exists,
                         gvr |-> IF exists THEN gvr.gvrCache[kind] ELSE ""]]
    /\ UNCHANGED <<now, config, isLeader, election, source, stores, worker, repoState,
                   feed, ep, last>>

\* --------------------------------------------------------- the Git clone
\* The commits the branch of the remote can be at.
Commits == {"c1", "c2"}

\* What Git answers during one syncRepository: whether a clone succeeds, whether
\* the worktree opens, how the pull ends, whether HEAD resolves, and the commit
\* the branch is at.
GitAnswer(clone, worktree, pull, head, commit) ==
    [clone |-> clone, worktree |-> worktree, pull |-> pull, head |-> head, commit |-> commit]

GitFails == GitAnswer(FALSE, FALSE, "fail", FALSE, "c1")

\* One answer for every path through syncRepository.
GitAnswers ==
    {GitFails, GitAnswer(FALSE, TRUE, "fail", TRUE, "c1"),
     GitAnswer(TRUE, FALSE, "fail", TRUE, "c1")}
    \cup {GitAnswer(TRUE, TRUE, pull, FALSE, "c1") : pull \in {"updated", "fail"}}
    \cup {GitAnswer(TRUE, TRUE, pull, TRUE, commit) :
             pull \in {"updated", "uptodate", "fail"}, commit \in Commits}

\* Git at its plainest: every call fails, or every call succeeds and the branch
\* stays at one commit.
PlainAnswers == {GitFails, GitAnswer(TRUE, TRUE, "uptodate", TRUE, "c1")}

\* gitOpsRepositoryState before the first sync: no handle, no commit, never
\* synced, and nothing cloned at localPath.  files are the directories the branch
\* tracks, with the untracked .env of each once there is a clone.
NoRepository == [repository |-> FALSE, lastCommit |-> "", lastSync |-> ZeroTime,
                 files |-> <<>>, mutex |-> Unlocked]

\* os.RemoveAll(localPath) and the checkout of a new clone: no untracked .env.
Checkout(files) == [i \in DOMAIN files |-> [files[i] EXCEPT !.env = "none"]]

syncRepositoryMutKeepHandle(rs, g) ==
    LET failed(x) == [repoState |-> x, ok |-> FALSE]
        head(x) == IF ~g.head THEN failed(x)
                   ELSE [repoState |-> [x EXCEPT !.lastCommit = g.commit, !.lastSync = now],
                         ok |-> TRUE]
    IN  IF ~rs.repository
        THEN IF ~g.clone THEN failed(rs) ELSE head([rs EXCEPT !.repository = TRUE])
        ELSE IF ~g.worktree THEN failed(rs)
        ELSE IF g.pull = "fail"
        THEN IF ~g.clone THEN failed(rs) ELSE head(rs)
        ELSE head(rs)

\* syncRepository on the state rs: the state it leaves and whether it returned nil.
syncRepository(rs, g) ==
    LET failed(x) == [repoState |-> x, ok |-> FALSE]
        head(x) == IF ~g.head THEN failed(x)
                   ELSE [repoState |-> [x EXCEPT !.lastCommit = g.commit, !.lastSync = now],
                         ok |-> TRUE]
    IN  IF ~rs.repository
        THEN IF ~g.clone THEN failed(rs) ELSE head([rs EXCEPT !.repository = TRUE])
        ELSE IF ~g.worktree THEN failed(rs)
        ELSE IF g.pull = "fail"
        THEN IF ~g.clone THEN failed([rs EXCEPT !.repository = FALSE, !.files = Checkout(@)])
             ELSE head([rs EXCEPT !.repository = TRUE, !.files = Checkout(@)])
        ELSE head(rs)

\* One pass of monitorGitOpsRepository's body after a successful syncRepository.
GitOpsCompare(r, rendered, c) ==
    \E k \in Keys :
        \E a \in {compareManifests(gitOpsStates[r], r, k, rendered, c)} :
            /\ gitOpsStates' = [gitOpsStates EXCEPT ![r] = a.m]
            /\ ep' = IF a.seen
                     THEN [ep EXCEPT ![r]["gitops"][k] = EpNext(@, a.hasError, a.msg, a.t)]
                     ELSE ep
            /\ last' = IF a.seen
                       THEN [last EXCEPT !["gitops"][k] =
                                Compared(Event(r, a.hasError, a.t, Pre(gitOpsStates[r], k), 0), c)]
                       ELSE IF rendered = "with"
                       THEN [last EXCEPT !["gitops"][k] =
                                Compared(Skipped(r, Pre(gitOpsStates[r], k)), c)]
                       ELSE last

\* monitorGitOpsRepository up to its ticker: the initial sync and comparison, which
\* do not look at isLeader.  A failed initial sync ends the goroutine.
GitOpsStart(r, answers) ==
    /\ source = "gitops"
    /\ worker[r] = "starting"
    /\ \E g \in answers, rendered \in Renderings, c \in Comparisons :
        \E sync \in {syncRepository(repoState[r], g)} :
            /\ (sync.ok /\ rendered = "with") \/ c = NoComparison
            /\ (sync.ok \/ rendered = "error")
            /\ repoState' = [repoState EXCEPT ![r] = sync.repoState]
            /\ IF sync.ok
               THEN /\ worker' = [worker EXCEPT ![r] = "ticking"]
                    /\ GitOpsCompare(r, rendered, c)
               ELSE /\ worker' = [worker EXCEPT ![r] = "returned"]
                    /\ UNCHANGED <<gitOpsStates, ep, last>>
    /\ UNCHANGED <<now, config, isLeader, election, source, gvr, podStates, nodeStates,
                   nodeResourceStates, longhornStates, feed>>

GitOpsTickMutNoLeaderCheck(r, answers) ==
    /\ source = "gitops"
    /\ worker[r] = "ticking"
    /\ \E g \in answers, rendered \in Renderings, c \in Comparisons :
        \E sync \in {syncRepository(repoState[r], g)} :
            /\ (sync.ok /\ rendered = "with") \/ c = NoComparison
            /\ sync.ok \/ rendered = "error"
            /\ repoState' = [repoState EXCEPT ![r] = sync.repoState]
            /\ IF sync.ok
               THEN GitOpsCompare(r, rendered, c)
               ELSE UNCHANGED <<gitOpsStates, ep, last>>
    /\ UNCHANGED <<now, config, isLeader, election, source, gvr, podStates, nodeStates,
                   nodeResourceStates, longhornStates, worker, feed>>

\* One tick of the ticker: skipped unless isLeader, and on a failed sync.
GitOpsTick(r, answers) ==
    /\ source = "gitops"
    /\ worker[r] = "ticking"
    /\ \E g \in answers, rendered \in Renderings, c \in Comparisons :
        \E sync \in {syncRepository(repoState[r], g)} :
            /\ (isLeader[r] /\ sync.ok /\ rendered = "with") \/ c = NoComparison
            /\ (isLeader[r] /\ sync.ok) \/ rendered = "error"
            /\ isLeader[r] \/ g = GitFails
            /\ repoState' = IF isLeader[r] THEN [repoState EXCEPT ![r] = sync.repoState]
                            ELSE repoState
            /\ IF isLeader[r] /\ sync.ok
               THEN GitOpsCompare(r, rendered, c)
               ELSE UNCHANGED <<gitOpsStates, ep, last>>
    /\ UNCHANGED <<now, config, isLeader, election, source, gvr, podStates, nodeStates,
                   nodeResourceStates, longhornStates, worker, feed>>

\* leaderelection.RunOrDie: the lease is acquired while no other candidate holds
\* it, and OnStartedLeading sets isLeader.
OnStartedLeading(r) ==
    /\ election[r] = "campaign"
    /\ \A o \in Replicas \ {r} : election[o] # "leading"
    /\ election' = [election EXCEPT ![r] = "leading"]
    /\ isLeader' = [isLeader EXCEPT ![r] = TRUE]
    /\ UNCHANGED <<now, config, source, gvr, stores, worker, repoState, feed, ep, last>>

OnStoppedLeadingMutKeepFlag(r) ==
    /\ election[r] = "leading"
    /\ election' = [election EXCEPT ![r] = "stopped"]
    /\ UNCHANGED <<now, config, isLeader, source, gvr, stores, worker, repoState, feed, ep, last>>

\* The lease is lost or released: OnStoppedLeading clears isLeader and RunOrDie
\* returns; runLeaderElection is not called again.
OnStoppedLeading(r) ==
    /\ election[r] = "leading"
    /\ election' = [election EXCEPT ![r] = "stopped"]
    /\ isLeader' = [isLeader EXCEPT ![r] = FALSE]
    /\ UNCHANGED <<now, config, source, gvr, stores, worker, repoState, feed, ep, last>>

\* A minute passes.
Tick ==
    /\ now < MaxTime
    /\ now' = now + 1
    /\ UNCHANGED <<config, isLeader, election, source, gvr, stores, worker, repoState, feed, ep, last>>

\* ------------------------------------------------------------------ Init
\* loadConfig's defaults: cpu_threshold_percent 80, volume_usage_percent 85 and
\* volume_capacity_critical 1 GiB (1024 MiB).
DefaultCPUThresholdPercent == 80
\* node_monitoring.cpu_threshold_percent: the default and a lower one.
LowCPUThresholdPercent == 55
CPUThresholds == {LowCPUThresholdPercent, DefaultCPUThresholdPercent}
DefaultVolumeUsagePercent == 85
DefaultVolumeCapacityCritical == 1024

\* The gitops section of the config file as viper reads it: the global
\* alert_on_mismatch and the repository's, which may be left out.
ConfigFiles == [global : BOOLEAN, repo : {"unset", "true", "false"}]

\* loadConfig on the gitops section: Unmarshal, then the global default for a
\* repository whose alert_on_mismatch is not set.
loadConfig(file) ==
    [AlertOnMismatch |-> file.global,
     Repositories |-> <<[Name |-> RepoName,
                         IsSet |-> file.repo # "unset",
                         AlertOnMismatch |-> IF file.repo = "unset" THEN file.global
                                             ELSE file.repo = "true"]>>]

\* viper.Unmarshal(&config) on the gitops section when the decoding of another
\* key of the file fails: the decoder goes on past the failing key and writes
\* every key it can decode into `config`.  A repository that leaves
\* alert_on_mismatch out keeps the flag of the element the slice held (reuse) or
\* gets the zero value.
Unmarshal(old, file, reuse) ==
    [AlertOnMismatch |-> file.global,
     Repositories |-> <<[Name |-> RepoName,
                         IsSet |-> file.repo # "unset",
                         AlertOnMismatch |->
                             IF file.repo # "unset" THEN file.repo = "true"
                             ELSE reuse /\ old.Repositories[1].AlertOnMismatch]>>]

\* Loaded is how the last call of loadConfig ended.
Configs(src) ==
    [Interval : Intervals,
     Loaded : {"ok"},
     NodeMonitoring : [Enabled : {src # "node"},
                       CPUThresholdPercent : IF src = "node_resource" THEN CPUThresholds
                                             ELSE {DefaultCPUThresholdPercent}],
     Longhorn : [AlertThresholds : [VolumeUsagePercent : {DefaultVolumeUsagePercent},
                                    VolumeCapacityCritical : {DefaultVolumeCapacityCritical}]],
     GitOps : {loadConfig(file) :
                  file \in IF src = "gitops" THEN ConfigFiles
                           ELSE {[global |-> TRUE, repo |-> "unset"]}}]

\* viper.OnConfigChange: the config file changed and loadConfig(true) ran.  The
\* reload writes `config` on viper's goroutine without a lock; a gate that reads
\* it between Unmarshal and the inheritance loop sees the new global flag with a
\* repository flag that is the old one or the new explicit one, and passes only
\* if the finished reload lets it pass too, so the reload is one step here.  Only
\* the gitops section changes.  loadConfig returns early when ReadInConfig fails
\* ("read error") and when Unmarshal fails ("decode error").
ConfigReload ==
    /\ source = "gitops"
    /\ \/ \E file \in ConfigFiles :
            config' = [config EXCEPT !.Loaded = "ok", !.GitOps = loadConfig(file)]
       \/ config' = [config EXCEPT !.Loaded = "read error"]
       \/ \E file \in ConfigFiles, reuse \in BOOLEAN :
            config' = [config EXCEPT !.Loaded = "decode error",
                                     !.GitOps = Unmarshal(@, file, reuse)]
    /\ config' # config
    /\ UNCHANGED <<now, isLeader, election, source, gvr, stores, worker, repoState, feed, ep, last>>

\* The stores an informer of the source writes: the node informer's handleNode
\* feeds both the node and the node_resource store.
FamiliesOf(src) ==
    IF src \in {"node", "node_resource"} THEN {"node", "node_resource"} ELSE {src}

\* The replica that handles the informer callbacks and the GitOps worker in Spec.
Handler == "A"

NoStore == [r \in Replicas |-> <<>>]

InitCommon ==
    /\ now = 1
    /\ podStates = NoStore
    /\ nodeStates = NoStore
    /\ nodeResourceStates = NoStore
    /\ longhornStates = [r \in Replicas |-> [kind \in LonghornKinds |-> <<>>]]
    /\ gitOpsStates = NoStore
    /\ worker = [r \in Replicas |-> "starting"]
    /\ repoState = [r \in Replicas |-> NoRepository]
    /\ gvr = NoGVRCache
    /\ led = [r \in Replicas |-> [k \in Keys |-> FALSE]]

\* main: outside a cluster the process assumes leadership at once; inside, it
\* campaigns with isLeader false.
Init ==
    /\ InitCommon
    /\ source \in Sources
    /\ config \in Configs(source)
    /\ election \in {[A |-> e, B |-> "campaign"] : e \in {"outside", "campaign"}}
    /\ isLeader = [r \in Replicas |-> election[r] = "outside"]
    /\ cluster = <<>>
    /\ pending = [r \in Replicas |-> FALSE]
    /\ ep = [r \in {Handler} |-> [f \in FamiliesOf(source) |-> [k \in Keys |-> Ep0]]]
    /\ last = [f \in FamiliesOf(source) |-> [k \in Keys |-> NoEvent]]

Next ==
    \/ PodEvent(Handler)
    \/ NodeEvent(Handler)
    \/ LonghornEvent(Handler)
    \/ LonghornDelete(Handler)
    \/ GitOpsStart(Handler, PlainAnswers)
    \/ GitOpsTick(Handler, PlainAnswers)
    \/ OnStartedLeading(Handler)
    \/ OnStoppedLeading(Handler)
    \/ Tick

Spec == Init /\ [][Next]_vars

\* ------------------------------------------------------- two replicas
\* Both replicas run the pod informer on the same cluster; they differ only in
\* who holds the lease.
SomeLeader == \E r \in Replicas : isLeader[r]

HAPodObjects == {<<Terminated(137)>>, <<Running>>}

\* The watched pod's status changes once every replica has handled the previous
\* change; each replica's informer queues the update.
ClusterChange ==
    /\ \A r \in Replicas : ~pending[r]
    /\ \E pod \in HAPodObjects : cluster' = pod
    /\ pending' = [r \in Replicas |-> TRUE]
    /\ UNCHANGED <<now, config, isLeader, election, source, gvr, stores, worker, repoState, led, ep, last>>

\* handlePod on replica r for the queued update.
PodDelivered(r) ==
    /\ pending[r]
    /\ \E k \in Keys :
        \E a \in {handlePod(Stores(r), r, k, cluster)} :
            /\ led' = [led EXCEPT ![r][k] =
                            SomeLeader /\ (ep[r]["pod"][k].open => @)]
            /\ podStates' = [podStates EXCEPT ![r] = a.S.pod]
            /\ ep' = [ep EXCEPT ![r]["pod"][k] = EpNext(@, a.hasError, a.msg, a.t)]
            /\ last' = [last EXCEPT !["pod"][k] =
                            Event(r, a.hasError, a.t, Pre(podStates[r], k),
                                  RunningContainers(cluster))]
    /\ pending' = [pending EXCEPT ![r] = FALSE]
    /\ UNCHANGED <<now, config, isLeader, election, source, gvr, nodeStates, nodeResourceStates,
                   longhornStates, gitOpsStates, worker, repoState,
                   cluster>>

InitHA ==
    /\ InitCommon
    /\ source = "pod"
    /\ config \in Configs(source)
    /\ election = [r \in Replicas |-> "campaign"]
    /\ isLeader = [r \in Replicas |-> FALSE]
    /\ cluster = <<>>
    /\ pending = [r \in Replicas |-> FALSE]
    /\ ep = [r \in Replicas |-> [f \in {"pod"} |-> [k \in Keys |-> Ep0]]]
    /\ last = [f \in {"pod"} |-> [k \in Keys |-> NoEvent]]

NextHA ==
    \/ ClusterChange
    \/ \E r \in Replicas : PodDelivered(r)
    \/ \E r \in Replicas : OnStartedLeading(r)
    \/ \E r \in Replicas : OnStoppedLeading(r)
    \/ Tick

SpecHA == InitHA /\ [][NextHA]_vars

\* ------------------------------------------------------ hot config reload
\* The GitOps worker of a process outside a cluster whose config file changes
\* while it runs.
InitReload ==
    /\ Init
    /\ source = "gitops"
    /\ config.Interval = 0
    /\ election[Handler] = "outside"

NextReload ==
    \/ GitOpsStart(Handler, PlainAnswers)
    \/ GitOpsTick(Handler, PlainAnswers)
    \/ ConfigReload
    \/ Tick

SpecReload == InitReload /\ [][NextReload]_vars

\* --------------------------------------------------- the worker and Git
\* The GitOps worker of a process outside a cluster, with every answer of Git.
InitSync ==
    /\ Init
    /\ source = "gitops"
    /\ config.Interval = 0
    /\ config.GitOps = loadConfig([global |-> TRUE, repo |-> "unset"])
    /\ election[Handler] = "outside"

NextSync ==
    \/ GitOpsStart(Handler, GitAnswers)
    \/ GitOpsTick(Handler, GitAnswers)
    \/ Tick

SpecSync == InitSync /\ [][NextSync]_vars

\* ------------------------------------------- the workers and the GVR cache
InitGVR ==
    /\ InitCommon
    /\ source = "gitops"
    /\ config \in {cfg \in Configs(source) :
                     /\ cfg.Interval = 0
                     /\ cfg.GitOps = loadConfig([global |-> TRUE, repo |-> "unset"])}
    /\ election = [A |-> "outside", B |-> "campaign"]
    /\ isLeader = [r \in Replicas |-> election[r] = "outside"]
    /\ cluster = <<>>
    /\ pending = [r \in Replicas |-> FALSE]
    /\ ep = <<>>
    /\ last = <<>>

NextGVR ==
    \E w \in Callers :
        \/ GetGVRForKind(w)
        \/ DoInitialize(w)
        \/ LockCache(w)
        \/ WriteEntry(w)
        \/ Initialized(w)
        \/ DoReturn(w)
        \/ LookupKind(w)

SpecGVR == InitGVR /\ [][NextGVR]_vars

\* ------------------------------------------------------ .env.example
MaxDirs == 2
MaxCalls == 3
EnvContents == {"A", "B"}
\* What a failed os.WriteFile may leave: the file created and not yet written.
Truncated == ""

\* A directory of the clone: its .env.example (none, unreadable, or its
\* contents), its .env (none or its contents) and what os.WriteFile of a new
\* .env does there: succeeds, fails before creating (denied), or fails after
\* creating the file (short).
Directories ==
    [example : {"none", "unreadable"} \cup EnvContents,
     env : {"none"} \cup EnvContents,
     write : {"ok", "denied", "short"}]

\* The clones: up to MaxDirs directories, in the lexical order of the walk.
FileTrees == UNION {[1..n -> Directories] : n \in 1..MaxDirs}

RECURSIVE Walk(_, _)
\* filepath.Walk from directory i on: the files it leaves and the error it returns.
Walk(files, i) ==
    IF i > Len(files) THEN [files |-> files, err |-> FALSE]
    ELSE LET d == files[i]
         IN  IF d.example = "none" THEN Walk(files, i + 1)
             ELSE IF d.env # "none" THEN Walk(files, i + 1)
             ELSE IF d.example = "unreadable" THEN [files |-> files, err |-> TRUE]
             ELSE IF d.write = "denied" THEN [files |-> files, err |-> TRUE]
             ELSE IF d.write = "short"
             THEN [files |-> [files EXCEPT ![i].env = Truncated], err |-> TRUE]
             ELSE Walk([files EXCEPT ![i].env = d.example], i + 1)

copyEnvExampleFiles(files) == Walk(files, 1)

\* generateKustomizeManifests with copyEnvExample set: the copy, whose error is
\* only logged. last counts the calls and keeps the error of the latest.
CopyEnvExample(r) ==
    /\ last.calls < MaxCalls
    /\ \E c \in {copyEnvExampleFiles(repoState[r].files)} :
            /\ repoState' = [repoState EXCEPT ![r].files = c.files]
            /\ last' = [calls |-> last.calls + 1, err |-> c.err]
    /\ UNCHANGED <<now, config, isLeader, election, source, gvr, stores, worker, feed, ep>>

\* A worker outside a cluster whose repository is cloned, with any files.
InitEnv ==
    /\ now = 1
    /\ podStates = NoStore
    /\ nodeStates = NoStore
    /\ nodeResourceStates = NoStore
    /\ longhornStates = [r \in Replicas |-> [kind \in LonghornKinds |-> <<>>]]
    /\ gitOpsStates = NoStore
    /\ worker = [r \in Replicas |-> "starting"]
    /\ gvr = NoGVRCache
    /\ led = [r \in Replicas |-> [k \in Keys |-> FALSE]]
    /\ source = "gitops"
    /\ config \in {cfg \in Configs(source) :
                     /\ cfg.Interval = 0
                     /\ cfg.GitOps = loadConfig([global |-> TRUE, repo |-> "unset"])}
    /\ election = [A |-> "outside", B |-> "campaign"]
    /\ isLeader = [r \in Replicas |-> election[r] = "outside"]
    /\ cluster = <<>>
    /\ pending = [r \in Replicas |-> FALSE]
    /\ \E tree \in FileTrees :
            repoState = [r \in Replicas |->
                            [repository |-> TRUE, lastCommit |-> "c1", lastSync |-> now,
                             files |-> tree, mutex |-> Unlocked]]
    /\ ep = <<>>
    /\ last = [calls |-> 0, err |-> FALSE]

NextEnv == CopyEnvExample(Handler)

SpecEnv == InitEnv /\ [][NextEnv]_vars

\* ------------------------------------------------------ the repo mutex
\* monitorGitOpsRepository of a process outside a cluster, by the steps at which
\* it takes and releases repoState.mutex.  worker is the goroutine's position.
\* The comparison of the rendered manifests takes no lock of the repository.
WithMutex(r, mutex) == [repoState EXCEPT ![r].mutex = mutex]

\* syncRepository: repoState.mutex.Lock().
LockSync(r) ==
    /\ worker[r] \in {"starting", "ticking"}
    /\ worker[r] = "ticking" => isLeader[r]
    /\ ~repoState[r].mutex.writer
    /\ repoState[r].mutex.readers = 0
    /\ repoState' = WithMutex(r, [repoState[r].mutex EXCEPT !.writer = TRUE])
    /\ worker' = [worker EXCEPT ![r] = IF @ = "starting" THEN "initial sync" ELSE "sync"]
    /\ UNCHANGED <<now, config, isLeader, election, source, gvr, stores, feed, ep, last>>

\* syncRepository between Lock and the deferred Unlock.
SyncRun(r) ==
    /\ worker[r] \in {"initial sync", "sync"}
    /\ \E g \in GitAnswers :
        \E sync \in {syncRepository(repoState[r], g)} :
            /\ repoState' = [repoState EXCEPT ![r] = sync.repoState]
            /\ worker' = [worker EXCEPT ![r] =
                              IF sync.ok THEN "synced"
                              ELSE IF @ = "initial sync" THEN "initial sync failed"
                              ELSE "sync failed"]
    /\ UNCHANGED <<now, config, isLeader, election, source, gvr, stores, feed, ep, last>>

\* syncRepository: the deferred repoState.mutex.Unlock(), and where the worker
\* goes on: to the rendering, to its return, or to the next tick.
UnlockSync(r) ==
    /\ worker[r] \in {"synced", "initial sync failed", "sync failed"}
    /\ repoState' = WithMutex(r, [repoState[r].mutex EXCEPT !.writer = FALSE])
    /\ worker' = [worker EXCEPT ![r] =
                      CASE @ = "synced" -> "compare"
                        [] @ = "initial sync failed" -> "returned"
                        [] OTHER -> "ticking"]
    /\ UNCHANGED <<now, config, isLeader, election, source, gvr, stores, feed, ep, last>>

\* generateKustomizeManifests: repoState.mutex.RLock().
RLockRender(r) ==
    /\ worker[r] = "compare"
    /\ ~repoState[r].mutex.writer
    /\ repoState' = WithMutex(r, [repoState[r].mutex EXCEPT !.readers = @ + 1])
    /\ worker' = [worker EXCEPT ![r] = "rendering"]
    /\ UNCHANGED <<now, config, isLeader, election, source, gvr, stores, feed, ep, last>>

\* generateKustomizeManifests between RLock and the deferred RUnlock;
\* copyEnvExample is repoConfig.Kustomize.CopyEnvExample as config has it then.
RenderRun(r) ==
    /\ worker[r] = "rendering"
    /\ \E copyEnvExample \in BOOLEAN :
            repoState' = [repoState EXCEPT ![r].files =
                              IF copyEnvExample THEN copyEnvExampleFiles(@).files ELSE @]
    /\ worker' = [worker EXCEPT ![r] = "rendered"]
    /\ UNCHANGED <<now, config, isLeader, election, source, gvr, stores, feed, ep, last>>

\* generateKustomizeManifests: the deferred repoState.mutex.RUnlock().
RUnlockRender(r) ==
    /\ worker[r] = "rendered"
    /\ repoState' = WithMutex(r, [repoState[r].mutex EXCEPT !.readers = @ - 1])
    /\ worker' = [worker EXCEPT ![r] = "ticking"]
    /\ UNCHANGED <<now, config, isLeader, election, source, gvr, stores, feed, ep, last>>

\* Nothing cloned yet; the branch tracks any directories, none with a .env.
InitLock ==
    /\ now = 1
    /\ podStates = NoStore
    /\ nodeStates = NoStore
    /\ nodeResourceStates = NoStore
    /\ longhornStates = [r \in Replicas |-> [kind \in LonghornKinds |-> <<>>]]
    /\ gitOpsStates = NoStore
    /\ worker = [r \in Replicas |-> "starting"]
    /\ gvr = NoGVRCache
    /\ led = [r \in Replicas |-> [k \in Keys |-> FALSE]]
    /\ source = "gitops"
    /\ config \in {cfg \in Configs(source) :
                     /\ cfg.Interval = 0
                     /\ cfg.GitOps = loadConfig([global |-> TRUE, repo |-> "unset"])}
    /\ election = [A |-> "outside", B |-> "campaign"]
    /\ isLeader = [r \in Replicas |-> election[r] = "outside"]
    /\ cluster = <<>>
    /\ pending = [r \in Replicas |-> FALSE]
    /\ \E tree \in {t \in FileTrees : \A i \in DOMAIN t : t[i].env = "none"} :
            repoState = [r \in Replicas |-> [NoRepository EXCEPT !.files = tree]]
    /\ ep = <<>>
    /\ last = <<>>

NextLock ==
    \/ LockSync(Handler)
    \/ SyncRun(Handler)
    \/ UnlockSync(Handler)
    \/ RLockRender(Handler)
    \/ RenderRun(Handler)
    \/ RUnlockRender(Handler)

SpecLock == InitLock /\ [][NextLock]_vars

\* ------------------------------------------------- the loop over manifests
\* compareManifests on a repository that renders up to two resources.
ManifestKeys == {"k1", "k2"}

\* What generateKustomizeManifests rendered, each resource with the answer the
\* cluster gives for it.
ManifestLists ==
    {<<>>}
    \cup {<<[key |-> k, c |-> c]>> : k \in ManifestKeys, c \in Comparisons}
    \cup {<<[key |-> "k1", c |-> c1], [key |-> "k2", c |-> c2]>> :
             c1 \in Comparisons, c2 \in Comparisons}

RECURSIVE compareEachMutReturn(_, _, _, _)
compareEachMutReturn(a, r, manifests, i) ==
    IF i > Len(manifests) THEN a
    ELSE LET x == compareManifestWithCluster(a.m, r, manifests[i].key, manifests[i].c)
         IN  IF ~x.seen THEN [m |-> x.m, out |-> Append(a.out, x)]
             ELSE compareEachMutReturn([m |-> x.m, out |-> Append(a.out, x)], r, manifests, i + 1)

\* `for _, manifest := range manifests`: an error of compareManifestWithCluster
\* is logged and the loop goes on.  out[i] is what the i-th call did.
RECURSIVE compareEach(_, _, _, _)
compareEach(a, r, manifests, i) ==
    IF i > Len(manifests) THEN a
    ELSE LET x == compareManifestWithCluster(a.m, r, manifests[i].key, manifests[i].c)
         IN  compareEach([m |-> x.m, out |-> Append(a.out, x)], r, manifests, i + 1)

\* The record of one pass for a resource: not rendered, not reached, skipped on
\* an error, or upserted.
Pass(manifests, out, k, flip) ==
    LET at == {i \in DOMAIN manifests : manifests[i].key = k}
        i == CHOOSE j \in at : TRUE
    IN  IF at = {} THEN [kind |-> "absent", c |-> NoComparison, t |-> Tally0, flip |-> flip]
        ELSE [kind |-> IF i > Len(out) THEN "unreached"
                       ELSE IF out[i].seen THEN "upsert" ELSE "skipped",
              c |-> manifests[i].c,
              t |-> IF i > Len(out) THEN Tally0 ELSE out[i].t,
              flip |-> flip]

\* One pass of compareManifests after a successful sync.
GitOpsCompareAll(r) ==
    /\ source = "gitops"
    /\ \E manifests \in ManifestLists :
        \E a \in {compareEach([m |-> gitOpsStates[r], out |-> <<>>], r, manifests, 1)} :
            /\ gitOpsStates' = [gitOpsStates EXCEPT ![r] = a.m]
            /\ last' = [k \in ManifestKeys |-> Pass(manifests, a.out, k, ~last[k].flip)]
    /\ UNCHANGED <<now, config, isLeader, election, source, gvr, podStates, nodeStates,
                   nodeResourceStates, longhornStates, worker, repoState, feed, ep>>

InitLoop ==
    /\ InitCommon
    /\ source = "gitops"
    /\ config \in {cfg \in Configs(source) :
                     cfg.GitOps = loadConfig([global |-> TRUE, repo |-> "unset"])}
    /\ election = [A |-> "outside", B |-> "campaign"]
    /\ isLeader = [r \in Replicas |-> election[r] = "outside"]
    /\ cluster = <<>>
    /\ pending = [r \in Replicas |-> FALSE]
    /\ ep = <<>>
    /\ last = [k \in ManifestKeys |-> Pass(<<>>, <<>>, k, FALSE)]

NextLoop ==
    \/ GitOpsCompareAll(Handler)
    \/ Tick

SpecLoop == InitLoop /\ [][NextLoop]_vars

\* ---------------------------------------------- the allowlist and denylist
\* generateKustomizeManifests on a rendering of up to two resources, under a
\* config with gitops.allowlist and gitops.denylist.
MaxRendered == 2
FilterKinds == {"Deployment", "Secret"}
FilterNamespaces == {"default", "kube-system"}

\* A []string of the config file: empty, one entry, or two different entries.
Lists(U) == {<<>>} \cup {<<x>> : x \in U} \cup {p \in U \X U : p[1] # p[2]}

GitOpsFilters == [Kinds : Lists(FilterKinds), Namespaces : Lists(FilterNamespaces)]

\* What obj.GetKind() and obj.GetNamespace() give for a rendered resource.
RenderedObjects == [kind : FilterKinds, namespace : FilterNamespaces]

Contains(list, x) == \E i \in DOMAIN list : list[i] = x

shouldFilterResourceMutAllowlistFirst(obj) ==
    IF Contains(config.GitOps.Allowlist.Kinds, obj.kind) THEN FALSE
    ELSE IF Contains(config.GitOps.Denylist.Kinds, obj.kind) THEN TRUE
    ELSE IF Contains(config.GitOps.Denylist.Namespaces, obj.namespace) THEN TRUE
    ELSE IF Len(config.GitOps.Allowlist.Kinds) > 0 THEN TRUE
    ELSE /\ Len(config.GitOps.Allowlist.Namespaces) > 0
         /\ ~Contains(config.GitOps.Allowlist.Namespaces, obj.namespace)

\* TRUE when the resource is filtered out.
shouldFilterResource(obj) ==
    IF Len(config.GitOps.Denylist.Kinds) > 0
       /\ Contains(config.GitOps.Denylist.Kinds, obj.kind)
    THEN TRUE
    ELSE IF Len(config.GitOps.Denylist.Namespaces) > 0
            /\ Contains(config.GitOps.Denylist.Namespaces, obj.namespace)
    THEN TRUE
    ELSE IF Len(config.GitOps.Allowlist.Kinds) > 0
            /\ ~Contains(config.GitOps.Allowlist.Kinds, obj.kind)
    THEN TRUE
    ELSE IF Len(config.GitOps.Allowlist.Namespaces) > 0
            /\ ~Contains(config.GitOps.Allowlist.Namespaces, obj.namespace)
    THEN TRUE
    ELSE FALSE

\* One pass of `for _, res := range resMap.Resources()`: the resource is skipped
\* or appended to manifests.  last keeps what was rendered and the manifests.
RenderResource(r) ==
    /\ Len(last.rendered) < MaxRendered
    /\ \E obj \in RenderedObjects :
        last' = [rendered |-> Append(last.rendered, obj),
                 manifests |-> IF shouldFilterResource(obj) THEN last.manifests
                               ELSE Append(last.manifests, obj)]
    /\ UNCHANGED <<now, config, isLeader, election, source, gvr, stores, worker, repoState,
                   feed, ep>>

InitFilter ==
    /\ now = 1
    /\ podStates = NoStore
    /\ nodeStates = NoStore
    /\ nodeResourceStates = NoStore
    /\ longhornStates = [r \in Replicas |-> [kind \in LonghornKinds |-> <<>>]]
    /\ gitOpsStates = NoStore
    /\ worker = [r \in Replicas |-> "rendering"]
    /\ repoState = [r \in Replicas |-> NoRepository]
    /\ gvr = NoGVRCache
    /\ led = [r \in Replicas |-> [k \in Keys |-> FALSE]]
    /\ source = "gitops"
    /\ \E allowlist \in GitOpsFilters, denylist \in GitOpsFilters :
            config = [Interval |-> 0, Loaded |-> "ok",
                      GitOps |-> [AlertOnMismatch |-> TRUE, Repositories |-> <<>>,
                                  Allowlist |-> allowlist, Denylist |-> denylist]]
    /\ election = [A |-> "outside", B |-> "campaign"]
    /\ isLeader = [r \in Replicas |-> election[r] = "outside"]
    /\ cluster = <<>>
    /\ pending = [r \in Replicas |-> FALSE]
    /\ ep = <<>>
    /\ last = [rendered |-> <<>>, manifests |-> <<>>]

NextFilter == RenderResource(Handler)

SpecFilter == InitFilter /\ [][NextFilter]_vars

\* ------------------------------------------- the dry-run and the live object
\* resourcesEqual on the dry-run result and the live object of one resource,
\* while the manifest and the cluster change.  Both objects come from the API
\* server, so both have a metadata map.
SystemLabels == {"app.kubernetes.io/managed-by", "helm.sh/chart",
                 "app.kubernetes.io/instance", "app.kubernetes.io/version"}
SystemAnnotations == {"kubectl.kubernetes.io/last-applied-configuration",
                      "deployment.kubernetes.io/revision",
                      "meta.helm.sh/release-name", "meta.helm.sh/release-namespace"}

\* A map[string]... with the given keys, without those whose value is "".
MapOf(keys, value(_)) == [k \in {x \in keys : value(x) # ""} |-> value(k)]

SpecTrees ==
    {[exists |-> FALSE, tree |-> <<>>]}
    \cup {[exists |-> TRUE, tree |-> [replicas |-> n]] : n \in {1, 2}}

LabelMaps ==
    {MapOf({"app", "helm.sh/chart"}, LAMBDA k : IF k = "app" THEN app ELSE chart) :
        app \in {"", "a", "b"}, chart \in {"", "sun-1.0"}}

AnnotationMaps ==
    {MapOf({"note", "deployment.kubernetes.io/revision"},
           LAMBDA k : IF k = "note" THEN note ELSE revision) :
        note \in {"", "x"}, revision \in {"", "1", "2"}}

\* An object: spec, metadata.labels, metadata.annotations, and status for the
\* fields outside them.
Resources ==
    [spec : SpecTrees, labels : LabelMaps, annotations : AnnotationMaps, status : {"s1", "s2"}]

\* The keys that occur, in the order json.Marshal writes the keys of a map.
SortedKeys == <<"app", "deployment.kubernetes.io/revision", "helm.sh/chart", "note", "replicas">>

\* json.Marshal of a map: its entries by sorted key.
Marshal(m) ==
    LET keys == SelectSeq(SortedKeys, LAMBDA k : k \in DOMAIN m)
    IN  [i \in DOMAIN keys |-> <<keys[i], m[keys[i]]>>]

cleanLabels(labels) == [k \in DOMAIN labels \ SystemLabels |-> labels[k]]

cleanAnnotations(annotations) ==
    [k \in DOMAIN annotations \ SystemAnnotations |-> annotations[k]]

resourcesEqualMutKeepSystemLabels(dryRunResult, actual) ==
    /\ dryRunResult.spec = actual.spec
    /\ Marshal(dryRunResult.labels) = Marshal(actual.labels)
    /\ Marshal(cleanAnnotations(dryRunResult.annotations))
            = Marshal(cleanAnnotations(actual.annotations))

resourcesEqual(dryRunResult, actual) ==
    IF dryRunResult.spec.exists # actual.spec.exists THEN FALSE
    ELSE IF dryRunResult.spec.exists
            /\ Marshal(dryRunResult.spec.tree) # Marshal(actual.spec.tree)
    THEN FALSE
    ELSE IF Marshal(cleanLabels(dryRunResult.labels)) # Marshal(cleanLabels(actual.labels))
    THEN FALSE
    ELSE IF Marshal(cleanAnnotations(dryRunResult.annotations))
                # Marshal(cleanAnnotations(actual.annotations))
    THEN FALSE
    ELSE TRUE

\* cluster holds the two objects; last holds the result of the comparison of
\* the objects as they are.
Sides == {"dryRun", "actual"}
NotCompared == [compared |-> FALSE, equal |-> FALSE]

CompareFrame ==
    UNCHANGED <<now, config, isLeader, election, source, gvr, stores, worker, repoState,
                pending, led, ep>>

\* The manifest or the cluster changes the spec of one of the objects.
ChangeSpec(side) ==
    /\ \E spec \in SpecTrees \ {cluster[side].spec} :
            cluster' = [cluster EXCEPT ![side].spec = spec]
    /\ last' = NotCompared
    /\ CompareFrame

ChangeLabels(side) ==
    /\ \E labels \in LabelMaps \ {cluster[side].labels} :
            cluster' = [cluster EXCEPT ![side].labels = labels]
    /\ last' = NotCompared
    /\ CompareFrame

ChangeAnnotations(side) ==
    /\ \E annotations \in AnnotationMaps \ {cluster[side].annotations} :
            cluster' = [cluster EXCEPT ![side].annotations = annotations]
    /\ last' = NotCompared
    /\ CompareFrame

ChangeStatus(side) ==
    /\ \E status \in {"s1", "s2"} \ {cluster[side].status} :
            cluster' = [cluster EXCEPT ![side].status = status]
    /\ last' = NotCompared
    /\ CompareFrame

\* resourcesAreDifferent calls resourcesEqual(dryRunResult, actual).
CompareResources(r) ==
    /\ ~last.compared
    /\ last' = [compared |-> TRUE, equal |-> resourcesEqual(cluster.dryRun, cluster.actual)]
    /\ UNCHANGED cluster
    /\ CompareFrame

InitCompare ==
    /\ now = 1
    /\ podStates = NoStore
    /\ nodeStates = NoStore
    /\ nodeResourceStates = NoStore
    /\ longhornStates = [r \in Replicas |-> [kind \in LonghornKinds |-> <<>>]]
    /\ gitOpsStates = NoStore
    /\ worker = [r \in Replicas |-> "compare"]
    /\ repoState = [r \in Replicas |-> NoRepository]
    /\ gvr = NoGVRCache
    /\ led = [r \in Replicas |-> [k \in Keys |-> FALSE]]
    /\ source = "gitops"
    /\ config \in {cfg \in Configs(source) :
                     /\ cfg.Interval = 0
                     /\ cfg.GitOps = loadConfig([global |-> TRUE, repo |-> "unset"])}
    /\ election = [A |-> "outside", B |-> "campaign"]
    /\ isLeader = [r \in Replicas |-> election[r] = "outside"]
    /\ \E obj \in {x \in Resources : x.spec.exists /\ x.status = "s1"
                                       /\ x.labels = <<>> /\ x.annotations = <<>>} :
            cluster = [dryRun |-> obj, actual |-> obj]
    /\ pending = [r \in Replicas |-> FALSE]
    /\ ep = <<>>
    /\ last = NotCompared

NextCompare ==
    \/ \E side \in Sides :
        \/ ChangeSpec(side)
        \/ ChangeLabels(side)
        \/ ChangeAnnotations(side)
        \/ ChangeStatus(side)
    \/ CompareResources(Handler)

SpecCompare == InitCompare /\ [][NextCompare]_vars

\* ----------------------------------------------------- the stores, two keys
\* The update, mark and delete functions of every store, called for two keys.
FrameKeys == {"k1", "k2"}
MaxRecords == 2

\* The nine maps of replica r.
View(r) == [S |-> Stores(r), L |-> longhornStates[r]]

MapOfFamily(V, f) == IF f \in LonghornFamilies THEN V.L[KindOf(f)] ELSE V.S[f]

RecordCount(V) ==
    Cardinality({x \in Families \X FrameKeys : x[2] \in DOMAIN MapOfFamily(V, x[1])})

\* updatePodState, updateNodeState, updateNodeResourceState, updateGitOpsState
\* and updateLonghorn*State.
Upsert(V, f, k, hasError) ==
    LET errorMessage == IF hasError THEN "error" ELSE ""
    IN  CASE f = "pod" -> [V EXCEPT !.S.pod = updatePodState(@, k, hasError, errorMessage)]
          [] f = "node" -> [V EXCEPT !.S.node = updateNodeState(@, k, hasError, errorMessage)]
          [] f = "node_resource" ->
                [V EXCEPT !.S.node_resource =
                    updateNodeResourceState(@, k, hasError, errorMessage, 1000, 800,
                                            Float64(80, 0))]
          [] f = "gitops" ->
                [V EXCEPT !.S.gitops =
                    updateGitOpsState(@, k, hasError, errorMessage, RepoName, "different")]
          [] f \in LonghornFamilies ->
                [V EXCEPT !.L = updateLonghornState(@, KindOf(f), k, hasError, errorMessage,
                                                    0, 0, "")]

\* markAlertSent, markNodeAlertSent, markNodeResourceAlertSent,
\* markGitOpsAlertSent and markLonghornAlertSent.
MarkSent(V, f, k) ==
    CASE f = "pod" -> [V EXCEPT !.S = markAlertSent(@, k)]
      [] f = "node" -> [V EXCEPT !.S = markNodeAlertSent(@, k)]
      [] f = "node_resource" -> [V EXCEPT !.S = markNodeResourceAlertSent(@, k)]
      [] f = "gitops" -> [V EXCEPT !.S.gitops = markGitOpsAlertSent(@, k)]
      [] f \in LonghornFamilies -> [V EXCEPT !.L = markLonghornAlertSent(@, KindOf(f), k)]

\* handleLonghorn*Delete; the other stores have no delete.
Delete(V, f, k) == [V EXCEPT !.L = handleLonghornDelete(@, KindOf(f), k, TRUE)]

Written(r, V) ==
    /\ podStates' = [podStates EXCEPT ![r] = V.S.pod]
    /\ nodeStates' = [nodeStates EXCEPT ![r] = V.S.node]
    /\ nodeResourceStates' = [nodeResourceStates EXCEPT ![r] = V.S.node_resource]
    /\ gitOpsStates' = [gitOpsStates EXCEPT ![r] = V.S.gitops]
    /\ longhornStates' = [longhornStates EXCEPT ![r] = V.L]
    /\ UNCHANGED <<now, config, isLeader, election, source, gvr, worker, repoState, feed,
                   ep, last>>

UpsertStep(r) ==
    \E f \in Families, k \in FrameKeys, hasError \in BOOLEAN :
        /\ RecordCount(Upsert(View(r), f, k, hasError)) <= MaxRecords
        /\ Written(r, Upsert(View(r), f, k, hasError))

MarkSentStep(r) ==
    \E f \in Families, k \in FrameKeys : Written(r, MarkSent(View(r), f, k))

DeleteStep(r) ==
    \E f \in LonghornFamilies, k \in FrameKeys : Written(r, Delete(View(r), f, k))

InitFrame ==
    /\ InitCommon
    /\ source = "pod"
    /\ config \in {cfg \in Configs(source) : cfg.Interval = 0}
    /\ election = [A |-> "outside", B |-> "campaign"]
    /\ isLeader = [r \in Replicas |-> election[r] = "outside"]
    /\ cluster = <<>>
    /\ pending = [r \in Replicas |-> FALSE]
    /\ ep = <<>>
    /\ last = <<>>

NextFrame ==
    \/ UpsertStep(Handler)
    \/ MarkSentStep(Handler)
    \/ DeleteStep(Handler)

SpecFrame == InitFrame /\ [][NextFrame]_vars

\* ---------------------------------------------------------------- claims
\* The gate as the specification states it, on what Lookup found for the key.
GateTruth(st) ==
    /\ st.exists
    /\ st.hasError
    /\ ~st.alertSent
    /\ (config.Interval = 0 \/ Since(st.firstError) >= config.Interval)

\* The last callback for the key ran at least the dwell interval after the onset
\* of the episode it belongs to.
DwellReached(f, k) ==
    last[f][k].time - ep[last[f][k].rep][f][k].onset >= config.Interval

\* C1 (as stated): in every family, one contiguous error episode of a key emits
\* at most one alert.
C1_OneAlertPerEpisode ==
    \A r \in DOMAIN ep : \A f \in DOMAIN ep[r] : \A k \in Keys :
        ep[r][f][k].alerts <= 1

\* C1 (amended): a pod, node, node-resource or Longhorn episode emits at most one
\* alert; a GitOps episode emits at most one alert per run of observations that
\* carry the same mismatch message.
C1_OneAlertPerEpisodeOrMessage ==
    \A r \in DOMAIN ep : \A f \in DOMAIN ep[r] : \A k \in Keys :
        IF f = "gitops" THEN ep[r][f][k].run <= 1 ELSE ep[r][f][k].alerts <= 1

\* A GitOps episode that alerted for two messages, then saw the second message
\* again without alerting.
C1_Witness ==
    /\ source = "gitops"
    /\ \E r \in DOMAIN ep : \E k \in Keys :
        /\ ep[r]["gitops"][k].open
        /\ ep[r]["gitops"][k].alerts = 2
        /\ ep[r]["gitops"][k].run = 1
        /\ last["gitops"][k].hasError
        /\ last["gitops"][k].pre.alertSent
        /\ last["gitops"][k].t.alerts = 0

\* C2: a callback that ran while isLeader was false made no HTTP request, for an
\* alert or for a recovery, in any family.
C2_NoPostUnlessLeader ==
    \A f \in DOMAIN last : \A k \in Keys :
        (last[f][k].kind = "upsert" /\ ~last[f][k].leader)
            => (last[f][k].t.posts = 0 /\ last[f][k].t.rposts = 0)

\* A non-leader's callback passed the gate and called sendWebhookMessage.
C2_Witness ==
    \E f \in DOMAIN last : \E k \in Keys :
        /\ last[f][k].kind = "upsert"
        /\ ~last[f][k].leader
        /\ last[f][k].t.alerts > 0

\* No alert is emitted at an event earlier than the dwell interval after the onset.
NoAlertBeforeDwell(f, k) ==
    last[f][k].t.alerts > 0 => DwellReached(f, k)

\* An error event at or after the dwell interval leaves the episode alerted.
AlertedAfterDwell(f, k) ==
    (last[f][k].hasError /\ DwellReached(f, k)) => ep[last[f][k].rep][f][k].alerts >= 1

\* gitops.alert_on_mismatch is on, globally and for the repository.
GitOpsAlertsOn == config.GitOps.AlertOnMismatch /\ ~RepoAlertsOff(RepoName)

\* alert_on_mismatch was on, globally and for the repository, when the key was
\* last compared.
AlertsOnAt(k) == last["gitops"][k].global /\ last["gitops"][k].repo

\* C3 (as stated): with interval N > 0 no alert is emitted at an event less than
\* N minutes after the onset of the episode, and the first event at or after N
\* minutes that still shows the error emits it (GitOps alerts being switched on).
C3_DwellThenAlert ==
    config.Interval > 0 =>
        \A f \in DOMAIN last : \A k \in Keys :
            (last[f][k].kind = "upsert" /\ (f = "gitops" => AlertsOnAt(k))) =>
                (NoAlertBeforeDwell(f, k) /\ AlertedAfterDwell(f, k))

\* C3 (amended): as stated for pod, node, node-resource and Longhorn keys; a
\* GitOps key is never alerted before N minutes either, and is alerted at the
\* first event N minutes after its message last changed, if alert_on_mismatch is
\* on globally and for the repository.
C3_DwellThenAlertPerMessage ==
    config.Interval > 0 =>
        \A f \in DOMAIN last : \A k \in Keys :
            last[f][k].kind = "upsert" =>
                /\ NoAlertBeforeDwell(f, k)
                /\ f # "gitops" => AlertedAfterDwell(f, k)
                /\ f = "gitops" =>
                    LET st == gitOpsStates[last[f][k].rep][k]
                    IN  (/\ st.hasError
                         /\ AlertsOnAt(k)
                         /\ last[f][k].time - st.firstError >= config.Interval)
                            => st.alertSent

\* A node under DiskPressure whose event exactly the dwell interval after the
\* onset emitted the alert.
C3_Witness ==
    /\ source = "node"
    /\ config.Interval = Dwell
    /\ \E k \in Keys :
        /\ last["node"][k].hasError
        /\ last["node"][k].t.alerts = 1
        /\ last["node"][k].time - ep[last["node"][k].rep]["node"][k].onset = Dwell
        /\ ep[last["node"][k].rep]["node"][k].msg = "Node under DiskPressure"

\* C4: in every family, between one error onset of a key and the next at most
\* one recovery alert is posted for the key.
C4_OneRecoveryPerOnset ==
    \A r \in DOMAIN ep : \A f \in DOMAIN ep[r] : \A k \in Keys :
        ep[r][f][k].rposts <= 1

\* C5: in every family, a leader's callback with a healthy verdict for a key
\* whose record it found with hasError and alertSent posts a recovery alert.
C5_RecoveryOnHealthy ==
    \A f \in DOMAIN last : \A k \in Keys :
        (/\ last[f][k].kind = "upsert"
         /\ last[f][k].leader
         /\ ~last[f][k].hasError
         /\ last[f][k].pre.hasError
         /\ last[f][k].pre.alertSent)
            => last[f][k].t.rposts >= 1

FailedMessages == {ContainerFailed(i) : i \in 1..MaxContainers}

\* C6: with interval 0, on the leader, the pod event that first shows a container
\* Terminated with a non-zero exit code posts exactly one alert, and a later
\* event that shows the pod's one container Running posts exactly one recovery
\* alert.
C6_PodFailureThenRecovery ==
    (source = "pod" /\ config.Interval = 0) =>
        \A k \in Keys :
            (last["pod"][k].kind = "upsert" /\ last["pod"][k].leader) =>
                /\ (/\ last["pod"][k].hasError
                    /\ ~last["pod"][k].pre.hasError
                    /\ ep[last["pod"][k].rep]["pod"][k].msg \in FailedMessages)
                        => last["pod"][k].t.posts = 1
                /\ (/\ ~last["pod"][k].hasError
                    /\ last["pod"][k].running = 1
                    /\ last["pod"][k].pre.hasError
                    /\ last["pod"][k].pre.alertSent)
                        => last["pod"][k].t.rposts = 1

\* C7: with interval 0, on the leader, the event that first shows a Longhorn
\* volume, replica, engine or node in error posts exactly one alert, and a later
\* healthy event for it posts exactly one recovery alert.
C7_LonghornAlertThenRecovery ==
    (source \in LonghornFamilies \ {"longhorn_backup"} /\ config.Interval = 0) =>
        \A k \in Keys :
            (last[source][k].kind = "upsert" /\ last[source][k].leader) =>
                /\ (last[source][k].hasError /\ ~last[source][k].pre.hasError)
                        => last[source][k].t.posts = 1
                /\ (~last[source][k].hasError /\ last[source][k].pre.hasError
                        /\ last[source][k].pre.alertSent)
                        => last[source][k].t.rposts = 1

\* The gates of the cited functions agree with the stated condition on every store.
GatesAsStated(r) ==
    \A k \in Keys :
        /\ \A alertType \in {"pod", "node", "node_resource", "gitops"} :
            shouldSendAlert(Stores(r), alertType, k)
                <=> GateTruth(Lookup(Stores(r)[alertType], k))
        /\ \A kind \in LonghornKinds :
            shouldSendLonghornAlert(longhornStates[r], kind, k)
                <=> GateTruth(Lookup(longhornStates[r][kind], k))

\* C10 (as stated): in every family the gate answers true iff the record exists,
\* hasError, not alertSent, and interval = 0 or now - firstError >= interval.
C10_GateIffStated ==
    \A r \in Replicas :
        /\ GatesAsStated(r)
        /\ \A k \in Keys :
            shouldSendGitOpsAlert(gitOpsStates[r], k)
                <=> GateTruth(Lookup(gitOpsStates[r], k))

\* C10 (amended): shouldSendAlert and shouldSendLonghornAlert answer true iff the
\* stated condition holds; the gate of the GitOps family, shouldSendGitOpsAlert,
\* answers true iff it holds and alert_on_mismatch is on globally and for the
\* repository.
C10_GateIffStatedAndEnabled ==
    \A r \in Replicas :
        /\ GatesAsStated(r)
        /\ \A k \in Keys :
            shouldSendGitOpsAlert(gitOpsStates[r], k)
                <=> (GateTruth(Lookup(gitOpsStates[r], k)) /\ GitOpsAlertsOn)

\* With interval 0, the gate answers true right after the first error Upsert of a pod.
C10_Witness ==
    /\ source = "pod"
    /\ config.Interval = 0
    /\ \E r \in DOMAIN ep : \E k \in Keys :
        /\ last["pod"][k].kind = "upsert"
        /\ last["pod"][k].hasError
        /\ ~last["pod"][k].pre.hasError
        /\ shouldSendAlert(Stores(r), "pod", k)

\* C8: after leadership moved from A to B, A makes no HTTP request when it
\* handles a further failure, and an event B handles as leader for a failure it
\* has already seen, past the dwell interval, leaves the alert posted by B
\* (nothing having been posted for the failure by A).
C8_NewLeaderAlerts ==
    (election["A"] = "stopped" /\ election["B"] = "leading") =>
        \A k \in Keys :
            (last["pod"][k].kind = "upsert" /\ last["pod"][k].hasError) =>
                /\ (last["pod"][k].rep = "A" /\ ~last["pod"][k].leader)
                        => last["pod"][k].t.posts = 0
                /\ (/\ last["pod"][k].rep = "B"
                    /\ last["pod"][k].leader
                    /\ last["pod"][k].pre.hasError
                    /\ DwellReached("pod", k)
                    /\ ep["A"]["pod"][k].posts = 0)
                        => ep["B"]["pod"][k].posts >= 1

\* C9: once a leader has handled an event for a failure it has already seen and
\* that is older than the dwell interval, some replica having been leader at
\* every callback for the failure and every replica having handled the event,
\* some replica has posted an alert for the failure.
C9_NoAlertLost ==
    \A k \in Keys :
        (/\ last["pod"][k].kind = "upsert"
         /\ last["pod"][k].hasError
         /\ last["pod"][k].leader
         /\ last["pod"][k].pre.hasError
         /\ DwellReached("pod", k)
         /\ \A r \in Replicas : ~pending[r] /\ led[r][k])
            => \E r \in DOMAIN ep : ep[r]["pod"][k].posts >= 1

\* The gate of family f as replica r's next callback for the key would read it.
GateNow(r, f, k) ==
    IF f = "gitops" THEN shouldSendGitOpsAlert(gitOpsStates[r], k)
    ELSE IF f \in LonghornFamilies
    THEN shouldSendLonghornAlert(longhornStates[r], KindOf(f), k)
    ELSE shouldSendAlert(Stores(r), f, k)

\* C11 (as stated): in every family, once the gate has passed and the key has
\* been marked sent, the gate does not pass again for the key before an Upsert
\* with hasError = false.
C11_GateMonotone ==
    \A r \in DOMAIN ep : \A f \in DOMAIN ep[r] : \A k \in Keys :
        /\ ep[r][f][k].marked <= 1
        /\ ep[r][f][k].marked >= 1 => ~GateNow(r, f, k)

\* C11 (amended): once the gate has passed and the key has been marked sent, the
\* gate does not pass again before an Upsert with hasError = false, a delete of
\* the key (Longhorn) or an error Upsert with another message (GitOps).
C11_GateMonotoneUntilRearm ==
    \A r \in DOMAIN ep : \A f \in DOMAIN ep[r] : \A k \in Keys :
        LET n == IF f = "gitops" THEN ep[r][f][k].run ELSE ep[r][f][k].alerts
        IN  /\ n <= 1
            /\ (ep[r][f][k].open /\ n >= 1) => ~GateNow(r, f, k)

\* A node whose CPU alert was marked sent and whose next event over the
\* threshold found the gate closed.
C11_Witness ==
    /\ source = "node_resource"
    /\ \E r \in DOMAIN ep : \E k \in Keys :
        /\ ep[r]["node_resource"][k].marked = 1
        /\ last["node_resource"][k].kind = "upsert"
        /\ last["node_resource"][k].hasError
        /\ last["node_resource"][k].pre.alertSent
        /\ last["node_resource"][k].t.alerts = 0
        /\ ~GateNow(r, "node_resource", k)

\* The state store of family f on replica r.
StoreOf(r, f) ==
    IF f \in LonghornFamilies THEN longhornStates[r][KindOf(f)] ELSE Stores(r)[f]

\* C12: in every store a record with alertSent has hasError and a non-zero
\* firstError, and the record a callback with a healthy verdict leaves behind has
\* alertSent = false.
C12_SentImpliesError ==
    /\ \A r \in Replicas : \A f \in Families : \A k \in DOMAIN StoreOf(r, f) :
            StoreOf(r, f)[k].alertSent =>
                (StoreOf(r, f)[k].hasError /\ StoreOf(r, f)[k].firstError # ZeroTime)
    /\ \A f \in DOMAIN last : \A k \in Keys :
            (last[f][k].kind = "upsert" /\ ~last[f][k].hasError) =>
                /\ k \in DOMAIN StoreOf(last[f][k].rep, f)
                /\ ~StoreOf(last[f][k].rep, f)[k].alertSent

\* A node whose record was marked sent has been upserted healthy.
C12_Witness ==
    /\ source = "node"
    /\ \E k \in Keys :
        /\ last["node"][k].kind = "upsert"
        /\ ~last["node"][k].hasError
        /\ last["node"][k].pre.hasError
        /\ last["node"][k].pre.alertSent
        /\ ~StoreOf(last["node"][k].rep, "node")[k].alertSent

\* C13: in every store a record with hasError = false has the zero firstError,
\* a first-seen healthy key included.
C13_HealthyHasZeroFirstError ==
    \A r \in Replicas : \A f \in Families : \A k \in DOMAIN StoreOf(r, f) :
        ~StoreOf(r, f)[k].hasError => StoreOf(r, f)[k].firstError = ZeroTime

\* C14: an in-cluster replica that is not leading, one that has lost leadership
\* included, still campaigns: whenever no other replica holds the lease it can
\* acquire it and have isLeader set again.
C14_CanReacquire ==
    \A r \in Replicas :
        (/\ election[r] \in {"campaign", "stopped"}
         /\ \A o \in Replicas \ {r} : election[o] # "leading")
            => ENABLED OnStartedLeading(r)

\* C15: at most one in-cluster replica has isLeader at any time, and once every
\* replica has handled an event of a failure at most one of them has posted an
\* alert for the failure.
C15_OneLeaderOnePoster ==
    /\ Cardinality({r \in Replicas : election[r] # "outside" /\ isLeader[r]}) <= 1
    /\ \A k \in Keys :
        (\A r \in Replicas : ~pending[r] /\ ep[r]["pod"][k].open) =>
            Cardinality({r \in Replicas : ep[r]["pod"][k].posts >= 1}) <= 1

\* C15 (amended): at most one in-cluster replica has isLeader at any time, and
\* every alert or recovery that is posted is posted by a callback of the replica
\* that was the leader when it ran.
C15_OneLeaderPosts ==
    /\ Cardinality({r \in Replicas : election[r] # "outside" /\ isLeader[r]}) <= 1
    /\ \A k \in Keys :
        (last["pod"][k].t.posts > 0 \/ last["pod"][k].t.rposts > 0) =>
            /\ last["pod"][k].leader
            /\ election[last["pod"][k].rep] # "campaign"

\* Leadership has moved from A to B and each has posted an alert for the failure
\* while it was the leader.
C15_Witness ==
    /\ election["A"] = "stopped"
    /\ isLeader = [r \in Replicas |-> r = "B"]
    /\ \E k \in Keys :
        /\ last["pod"][k].rep = "B"
        /\ last["pod"][k].leader
        /\ last["pod"][k].t.posts = 1
        /\ ep["A"]["pod"][k].open
        /\ ep["A"]["pod"][k].posts = 1

\* No record of the GitOps store carries mismatchType extra.
NeverExtra ==
    \A r \in Replicas : \A k \in DOMAIN gitOpsStates[r] :
        gitOpsStates[r][k].mismatchType # "extra"

\* The record of the key in the store of the replica that made the last comparison.
ComparedState(k) == Lookup(gitOpsStates[last["gitops"][k].rep], k)

ComparedType(k) == gitOpsStates[last["gitops"][k].rep][k].mismatchType

\* C16: for a manifest whose kind resolves to a GVR, a not-found GET upserts the
\* key in error as missing, an existing object whose dry-run result differs
\* under resourcesEqual upserts it in error as different, and an existing object
\* otherwise (equal result, or failed dry-run) upserts it healthy; extra is never
\* recorded.  A GET that fails with another error ends the comparison of the
\* manifest without an Upsert.
C16_Classification ==
    /\ NeverExtra
    /\ source = "gitops" => \A k \in Keys :
        (last["gitops"][k].kind \in {"upsert", "skipped"} /\ last["gitops"][k].c.gvr) =>
            IF last["gitops"][k].c.get = "error"
            THEN /\ last["gitops"][k].kind = "skipped"
                 /\ Pre(gitOpsStates[last["gitops"][k].rep], k) = last["gitops"][k].pre
            ELSE /\ last["gitops"][k].kind = "upsert"
                 /\ IF last["gitops"][k].c.get = "notfound"
                    THEN ComparedState(k).hasError /\ ComparedType(k) = "missing"
                    ELSE IF /\ last["gitops"][k].c.dryRun = "ok"
                            /\ ~last["gitops"][k].c.equal
                    THEN ComparedState(k).hasError /\ ComparedType(k) = "different"
                    ELSE ~ComparedState(k).hasError /\ ComparedType(k) = ""

\* A key recorded as missing was found by the next comparison, whose dry-run
\* result differs from the live object: it is now recorded as different.
C16_Witness ==
    /\ source = "gitops"
    /\ \E k \in Keys :
        /\ last["gitops"][k].kind = "upsert"
        /\ last["gitops"][k].pre.hasError
        /\ last["gitops"][k].c = Comparison(TRUE, "found", "ok", FALSE)
        /\ ComparedState(k).hasError
        /\ ComparedType(k) = "different"

\* C17: a GitOps alert is emitted only by a comparison that found
\* alert_on_mismatch true globally and for the repository; a comparison of a
\* key in error that found either one false emits none and does not set
\* alertSent; and a repository that does not set the key has the global value,
\* after the load and after every reload that loadConfig completed.
C17_AlertOnlyIfEnabled ==
    source = "gitops" =>
        /\ \A i \in DOMAIN config.GitOps.Repositories :
            (config.Loaded = "ok" /\ ~config.GitOps.Repositories[i].IsSet) =>
                config.GitOps.Repositories[i].AlertOnMismatch = config.GitOps.AlertOnMismatch
        /\ \A k \in Keys :
            last["gitops"][k].kind = "upsert" =>
                /\ last["gitops"][k].t.alerts > 0 =>
                        (last["gitops"][k].global /\ last["gitops"][k].repo)
                /\ (/\ last["gitops"][k].hasError
                    /\ ~(last["gitops"][k].global /\ last["gitops"][k].repo)) =>
                        /\ last["gitops"][k].t.alerts = 0
                        /\ ComparedState(k).alertSent => last["gitops"][k].pre.alertSent

\* After a reload that left the repository's key out while the global flag is
\* off, a comparison found the key in error, past the gate's other conditions,
\* and emitted nothing.
C17_Witness ==
    /\ source = "gitops"
    /\ config.Interval = 0
    /\ ~config.GitOps.Repositories[1].IsSet
    /\ \E k \in Keys :
        /\ ep[Handler]["gitops"][k].alerts >= 1
        /\ last["gitops"][k].kind = "upsert"
        /\ last["gitops"][k].hasError
        /\ ~last["gitops"][k].pre.alertSent
        /\ ~last["gitops"][k].global
        /\ ~last["gitops"][k].repo
        /\ last["gitops"][k].t.alerts = 0
        /\ ~ComparedState(k).alertSent

\* C18: a step that takes a GitOps key from a record in error to a record in
\* error re-arms it (firstError = now, and alertSent only if this comparison's
\* own gate passed) when the record's message changed, and keeps firstError and
\* a set alertSent when the message is the same.
C18_RearmOnMessageChange ==
    [][\A r \in DOMAIN gitOpsStates : \A k \in DOMAIN gitOpsStates[r] :
        (/\ k \in DOMAIN gitOpsStates'[r]
         /\ gitOpsStates[r][k].hasError
         /\ gitOpsStates'[r][k].hasError) =>
            IF gitOpsStates'[r][k].lastMessage # gitOpsStates[r][k].lastMessage
            THEN /\ gitOpsStates'[r][k].firstError = now
                 /\ gitOpsStates'[r][k].alertSent =>
                        (last'["gitops"][k].t.alerts > 0 /\ config.Interval = 0)
            ELSE /\ gitOpsStates'[r][k].firstError = gitOpsStates[r][k].firstError
                 /\ gitOpsStates[r][k].alertSent => gitOpsStates'[r][k].alertSent
                 /\ gitOpsStates'[r][k].alertSent =>
                        (gitOpsStates[r][k].alertSent \/ last'["gitops"][k].t.alerts > 0)]_vars

\* A key alerted as missing was later found different: the record lost its
\* alertSent and its firstError is the time of that comparison.
C18_Witness ==
    /\ source = "gitops"
    /\ \E k \in Keys :
        /\ last["gitops"][k].kind = "upsert"
        /\ last["gitops"][k].hasError
        /\ last["gitops"][k].pre.hasError
        /\ last["gitops"][k].pre.alertSent
        /\ ComparedType(k) = "different"
        /\ ep[Handler]["gitops"][k].marked >= 1
        /\ ep[Handler]["gitops"][k].run = 0
        /\ ~ComparedState(k).alertSent
        /\ ComparedState(k).firstError = last["gitops"][k].time
        /\ ComparedState(k).firstError > ep[Handler]["gitops"][k].onset

\* The families of the running source whose records ignore the message.
ChurnFamilies ==
    IF source \in {"node", "node_resource"} THEN {"node", "node_resource"}
    ELSE {source} \ {"gitops"}

\* C19: in the pod, node, node-resource and Longhorn stores a step that takes a
\* key from a record in error to a record in error keeps firstError and a set
\* alertSent, whatever the messages, and a callback that alerts in such a step
\* found alertSent false.
C19_MessageChurnKeepsState ==
    [][\A r \in {Handler} : \A f \in ChurnFamilies : \A k \in DOMAIN StoreOf(r, f) :
        (/\ k \in DOMAIN StoreOf(r, f)'
         /\ StoreOf(r, f)[k].hasError
         /\ StoreOf(r, f)'[k].hasError) =>
            /\ StoreOf(r, f)'[k].firstError = StoreOf(r, f)[k].firstError
            /\ StoreOf(r, f)[k].alertSent => StoreOf(r, f)'[k].alertSent
            /\ (last'[f][k] # last[f][k] /\ last'[f][k].t.alerts > 0) =>
                    ~StoreOf(r, f)[k].alertSent]_vars

\* A node alerted for its CPU usage was seen again over the threshold with
\* another usage, hence another message: the record kept firstError and alertSent.
C19_Witness ==
    /\ source = "node_resource"
    /\ \E r \in DOMAIN ep : \E k \in DOMAIN nodeResourceStates[r] :
        /\ ep[r]["node_resource"][k].open
        /\ ep[r]["node_resource"][k].alerts = 1
        /\ ep[r]["node_resource"][k].run = 0
        /\ last["node_resource"][k].kind = "upsert"
        /\ last["node_resource"][k].pre.alertSent
        /\ last["node_resource"][k].time > ep[r]["node_resource"][k].onset
        /\ nodeResourceStates[r][k].alertSent
        /\ nodeResourceStates[r][k].firstError = ep[r]["node_resource"][k].onset
        /\ nodeResourceStates[r][k].lastMessage = ep[r]["node_resource"][k].msg

\* C20: for each of the five Longhorn kinds, a delete event leaves the key out
\* of the kind's store, and the add that follows it finds no record and leaves
\* one with firstError = the time of the add and alertSent set only if this
\* add's own gate passed.
C20_DeleteThenAddIsFirstSeen ==
    [][\A f \in LonghornFamilies \cap {source} : \A k \in Keys :
        LET r == last'[f][k].rep
            deleted == {"delete", "unhandled delete"}
        IN  /\ last'[f][k].kind \in deleted =>
                    k \notin DOMAIN longhornStates'[r][KindOf(f)]
            /\ (last[f][k].kind \in deleted /\ last'[f][k].kind = "upsert") =>
                    /\ ~last'[f][k].pre.exists
                    /\ k \in DOMAIN longhornStates'[r][KindOf(f)]
                    /\ longhornStates'[r][KindOf(f)][k].firstError = now
                    /\ longhornStates'[r][KindOf(f)][k].alertSent =>
                            (last'[f][k].t.alerts > 0 /\ config.Interval = 0)]_vars

\* A step in which the key is compared again with the answer of the cluster and
\* the alert_on_mismatch flags of its previous comparison.
SameComparisonAgain(k) ==
    /\ last["gitops"][k].kind \in {"upsert", "skipped"}
    /\ last'["gitops"][k].kind \in {"upsert", "skipped"}
    /\ last'["gitops"][k] # last["gitops"][k]
    /\ last'["gitops"][k].c = last["gitops"][k].c
    /\ last'["gitops"][k].global = last["gitops"][k].global
    /\ last'["gitops"][k].repo = last["gitops"][k].repo

\* C21 (as stated): a comparison that follows one with the same manifests, the
\* same live objects and the same configuration emits no alert and no recovery
\* alert.
C21_SecondRunSilent ==
    [][\A k \in Keys :
        (source = "gitops" /\ SameComparisonAgain(k)) =>
            /\ last'["gitops"][k].t.alerts = 0
            /\ last'["gitops"][k].t.recov = 0]_vars

\* C21 (amended): such a comparison emits no recovery alert, and emits an alert
\* only for a key the previous comparison left in error and not alerted, with a
\* dwell interval that has now elapsed since its firstError.
C21_SecondRunSilentUnlessDwell ==
    [][\A k \in Keys :
        (source = "gitops" /\ SameComparisonAgain(k)) =>
            /\ last'["gitops"][k].t.recov = 0
            /\ last'["gitops"][k].t.alerts > 0 =>
                    LET st == Lookup(gitOpsStates[last'["gitops"][k].rep], k)
                    IN  /\ config.Interval > 0
                        /\ st.hasError
                        /\ ~st.alertSent
                        /\ now - st.firstError >= config.Interval]_vars

\* A key alerted as missing was compared again, still missing and with alerts
\* still on: the second comparison emitted nothing.
C21_Witness ==
    /\ source = "gitops"
    /\ \E k \in Keys :
        /\ last["gitops"][k].kind = "upsert"
        /\ ComparedType(k) = "missing"
        /\ last["gitops"][k].pre.hasError
        /\ last["gitops"][k].pre.alertSent
        /\ AlertsOnAt(k)
        /\ ep[Handler]["gitops"][k].run = 1
        /\ last["gitops"][k].t.alerts = 0
        /\ last["gitops"][k].t.recov = 0
        /\ ComparedState(k).alertSent

\* C22: the GitOps worker of every replica runs for the whole lifetime of the
\* process: after a failed sync, the initial one included, it is still there to
\* sync again at its next tick.
C22_WorkerRunsForLifetime ==
    source = "gitops" => \A r \in Replicas : worker[r] \in {"starting", "ticking"}

\* C23: a comparison that fetched the live object and whose dry-run apply
\* failed records the key as in sync (hasError false, no mismatch type) and
\* emits no alert.
C23_DryRunFailureIsEqual ==
    source = "gitops" =>
        \A k \in Keys :
            (/\ last["gitops"][k].kind \in {"upsert", "skipped"}
             /\ last["gitops"][k].c.gvr
             /\ last["gitops"][k].c.get = "found"
             /\ last["gitops"][k].c.dryRun = "fail") =>
                /\ last["gitops"][k].kind = "upsert"
                /\ ~last["gitops"][k].hasError
                /\ last["gitops"][k].t.alerts = 0
                /\ ~ComparedState(k).hasError
                /\ ~ComparedState(k).alertSent
                /\ ComparedType(k) = ""

\* A key recorded as different was compared again with a failing dry-run and
\* is now recorded as in sync.
C23_Witness ==
    /\ source = "gitops"
    /\ \E k \in Keys :
        /\ last["gitops"][k].kind = "upsert"
        /\ last["gitops"][k].c.get = "found"
        /\ last["gitops"][k].c.dryRun = "fail"
        /\ last["gitops"][k].pre.hasError
        /\ ~last["gitops"][k].pre.alertSent
        /\ ~ComparedState(k).hasError
        /\ gitOpsStates[Handler][k].lastSeen = last["gitops"][k].time

\* The resource was rendered in the pass that just ran and its kind had no GVR
\* or its GET failed with an error other than not-found.
FailedLookup(k) ==
    /\ last'[k].flip # last[k].flip
    /\ last'[k].kind # "absent"
    /\ (~last'[k].c.gvr \/ last'[k].c.get = "error")

\* C24: a resource whose kind is not in the GVR cache, or whose GET fails with
\* an error other than not-found, is skipped in that pass: its record is as
\* before, nothing is emitted for it, and every other rendered resource whose
\* lookup succeeds is upserted in the same pass.
C24_SkipAndGoOn ==
    [][\A k \in ManifestKeys :
        FailedLookup(k) =>
            /\ last'[k].kind = "skipped"
            /\ last'[k].t = Tally0
            /\ (k \in DOMAIN gitOpsStates'[Handler]) = (k \in DOMAIN gitOpsStates[Handler])
            /\ k \in DOMAIN gitOpsStates[Handler] =>
                    gitOpsStates'[Handler][k] = gitOpsStates[Handler][k]
            /\ \A j \in ManifestKeys \ {k} :
                    (last'[j].kind # "absent" /\ last'[j].c.gvr /\ last'[j].c.get # "error") =>
                        /\ last'[j].kind = "upsert"
                        /\ j \in DOMAIN gitOpsStates'[Handler]
                        /\ gitOpsStates'[Handler][j].lastSeen = now]_vars

\* The first resource, alerted as missing, was skipped on a failed lookup and
\* kept its record, and the second was upserted in the same pass.
C24_Witness ==
    /\ last["k1"].kind = "skipped"
    /\ last["k2"].kind = "upsert"
    /\ "k1" \in DOMAIN gitOpsStates[Handler]
    /\ gitOpsStates[Handler]["k1"].alertSent
    /\ gitOpsStates[Handler]["k1"].lastSeen < now
    /\ "k2" \in DOMAIN gitOpsStates[Handler]
    /\ gitOpsStates[Handler]["k2"].lastSeen = now

\* What the gates and classifiers read from the configuration.
GateFields(cfg) ==
    <<cfg.Interval, cfg.NodeMonitoring, cfg.Longhorn, cfg.GitOps.AlertOnMismatch,
      [i \in DOMAIN cfg.GitOps.Repositories |-> cfg.GitOps.Repositories[i].AlertOnMismatch]>>

\* C25: a reload that fails, because the file cannot be read or cannot be
\* decoded, leaves every field the gates and classifiers read as it was.
C25_FailedReloadKeepsConfig ==
    [][config'.Loaded # "ok" => GateFields(config') = GateFields(config)]_vars

\* What C30 states of one call of syncRepository, but for the outcome after a
\* failed pull: without a handle it clones and fails if the clone fails; with
\* one it pulls and an up-to-date pull counts as a success; lastCommit and
\* lastSync change only in a call that succeeds, which sets them; a failed
\* re-clone leaves no handle.
SyncAsStated(rs, g, s) ==
    /\ ~rs.repository =>
            /\ s.ok => (g.clone /\ s.repoState.repository)
            /\ ~g.clone => (~s.ok /\ s.repoState = rs)
    /\ (rs.repository /\ g.worktree /\ g.pull # "fail" /\ g.head) => s.ok
    /\ (rs.repository /\ g.worktree /\ g.pull # "fail") => s.repoState.repository
    /\ ~s.ok => /\ s.repoState.lastCommit = rs.lastCommit
                /\ s.repoState.lastSync = rs.lastSync
    /\ s.ok => /\ s.repoState.lastCommit = g.commit
               /\ s.repoState.lastSync = now
    /\ (rs.repository /\ g.worktree /\ g.pull = "fail" /\ ~g.clone) =>
            (~s.ok /\ ~s.repoState.repository)

\* C30 (as stated): in every state the worker reaches, for every answer of Git,
\* syncRepository does as stated, and after a failed pull it succeeds iff the
\* re-clone succeeds.
C30_SyncRepository ==
    source = "gitops" =>
        \A g \in GitAnswers :
            LET rs == repoState[Handler]
                s == syncRepository(rs, g)
            IN  /\ SyncAsStated(rs, g, s)
                /\ (rs.repository /\ g.worktree /\ g.pull = "fail") => (s.ok <=> g.clone)

\* C30 (amended): as stated, but after a failed pull the sync succeeds iff the
\* re-clone succeeds and the HEAD of the new clone resolves.
C30_SyncRepositoryHead ==
    source = "gitops" =>
        \A g \in GitAnswers :
            LET rs == repoState[Handler]
                s == syncRepository(rs, g)
            IN  /\ SyncAsStated(rs, g, s)
                /\ (rs.repository /\ g.worktree /\ g.pull = "fail") =>
                        (s.ok <=> (g.clone /\ g.head))

\* The worker synced once and a later pull failed with a re-clone that failed
\* too: the commit of the earlier sync is kept and there is no handle.
C30_Witness ==
    /\ source = "gitops"
    /\ worker[Handler] = "ticking"
    /\ ~repoState[Handler].repository
    /\ repoState[Handler].lastCommit = "c2"
    /\ repoState[Handler].lastSync < now

\* C26: a call of copyEnvExampleFiles changes a .env only by creating it, where
\* there was none, with the contents of the .env.example beside it; and a call
\* after the first leaves every file as it was.
C26_CopyIsIdempotent ==
    [][/\ \A i \in DOMAIN repoState[Handler].files :
            LET d == repoState[Handler].files[i]
                e == repoState'[Handler].files[i]
            IN  e.env # d.env => (d.env = "none" /\ e.env = d.example)
       /\ last.calls >= 1 => repoState' = repoState]_vars

\* C27: a callback whose gate passed and whose sendWebhookMessage made no HTTP
\* request, the replica not being the leader, leaves the record of the key
\* without alertSent.
C27_MarkedOnlyIfPosted ==
    \A f \in DOMAIN last : \A k \in Keys :
        (/\ last[f][k].kind = "upsert"
         /\ last[f][k].t.alerts > 0
         /\ last[f][k].t.posts = 0)
            => ~Lookup(StoreOf(last[f][k].rep, f), k).alertSent

\* C28: a comparison that emitted a GitOps recovery alert for a key fetched the
\* live object, had a successful dry-run apply, and found the dry-run result
\* equal to the live object.
C28_RecoveryOnlyIfEqual ==
    source = "gitops" =>
        \A k \in Keys :
            (last["gitops"][k].kind = "upsert" /\ last["gitops"][k].t.recov > 0) =>
                /\ last["gitops"][k].c.gvr
                /\ last["gitops"][k].c.get = "found"
                /\ last["gitops"][k].c.dryRun = "ok"
                /\ last["gitops"][k].c.equal

\* C29: a step of the GitOps worker that syncs or compares is its initial
\* iteration or a tick at which isLeader is true; a step that compares leaves
\* the repository synced at this instant; and a comparison posts only if the
\* replica is the leader, the initial one included.
C29_TicksNeedLeader ==
    [][source = "gitops" =>
        /\ (repoState' # repoState \/ gitOpsStates' # gitOpsStates \/ last' # last) =>
                \/ worker[Handler] = "starting"
                \/ worker[Handler] = "ticking" /\ isLeader[Handler]
        /\ (gitOpsStates' # gitOpsStates \/ last' # last) =>
                /\ repoState'[Handler].repository
                /\ repoState'[Handler].lastSync = now
                /\ worker'[Handler] = "ticking"
        /\ \A k \in Keys :
                (last'["gitops"][k] # last["gitops"][k]
                    /\ (last'["gitops"][k].t.posts > 0 \/ last'["gitops"][k].t.rposts > 0))
                    => isLeader[Handler]]_vars

\* A replica that is not the leader has run its initial comparison, which found
\* a mismatch and passed the gate, and nothing was posted.
C29_Witness ==
    /\ source = "gitops"
    /\ worker[Handler] = "ticking"
    /\ ~isLeader[Handler]
    /\ election[Handler] = "campaign"
    /\ \E k \in Keys :
        /\ last["gitops"][k].kind = "upsert"
        /\ ~last["gitops"][k].leader
        /\ last["gitops"][k].t.alerts = 1
        /\ last["gitops"][k].t.posts = 0

\* C31: the repository's mutex is never held exclusively and shared at once,
\* the worker is inside syncRepository only with the exclusive lock and inside
\* generateKustomizeManifests only with the shared one, and a step that changes
\* the files of the working tree starts with the exclusive lock held.
C31_TreeWrittenUnderLock ==
    [][/\ ~(repoState[Handler].mutex.writer /\ repoState[Handler].mutex.readers > 0)
       /\ worker[Handler] \in {"initial sync", "sync"} => repoState[Handler].mutex.writer
       /\ worker[Handler] = "rendering" => repoState[Handler].mutex.readers > 0
       /\ repoState'[Handler].files # repoState[Handler].files
            => repoState[Handler].mutex.writer]_vars

\* C32: initializeGVRCache runs at most once; a lookup reads the cache only
\* after that run has returned; and a mapping once written for a Kind stays:
\* the cache holds for every Kind the first mapping written for it.
C32_CacheWrittenOnce ==
    [][/\ gvr'.runs <= 1
       /\ \A w \in Callers :
            (gvr.calls[w].pc = "lookup" /\ gvr'.calls[w].pc = "idle") =>
                (gvr.gvrCacheInit = "done" /\ gvr.resources = <<>>)
       /\ \A kind \in DOMAIN gvr.gvrCache :
            /\ kind \in DOMAIN gvr'.gvrCache
            /\ gvr'.gvrCache[kind] = gvr.gvrCache[kind]
            /\ gvr.gvrCache[kind] = gvr.first[kind]]_vars

\* The verdict of processContainerStatus on one container status.
ContainerVerdict(c) == (c.terminated /\ c.exitCode # 0) \/ c.waiting

\* handlePod's loop over the first n containers of the pod.
LoopUpTo(S, r, k, pod, n) ==
    ContainerLoop([S |-> S, t |-> Tally0, hasError |-> FALSE, msg |-> ""],
                  r, k, SubSeq(pod, 1, n), 1)

RECURSIVE TallyFromPrevious(_, _, _, _, _, _)
\* The tally of a callback whose every container is handled on the stores S
\* that the previous event left.
TallyFromPrevious(S, r, k, pod, i, t) ==
    IF i > Len(pod) THEN t
    ELSE TallyFromPrevious(S, r, k, pod, i + 1,
            processContainerStatus([S |-> S, t |-> t, hasError |-> FALSE, msg |-> ""],
                                   r, k, i, pod[i]).t)

\* handlePod on the stores S: hasError is the OR of the verdicts of all the
\* containers, no store but podStates changes and in it no key but k, the loop
\* over the containers leaves hasError, firstError, lastMessage and lastSeen of
\* k's record alone and creates no record, and the one Upsert after the loop
\* stamps the record with the verdict at this instant.
OneUpsertAfterLoop(S, r, k, pod) ==
    LET a == handlePod(S, r, k, pod)
    IN  /\ a.hasError = (\E i \in DOMAIN pod : ContainerVerdict(pod[i]))
        /\ \A f \in DOMAIN S : f # "pod" => a.S[f] = S[f]
        /\ \A o \in Keys \ {k} : Lookup(a.S.pod, o) = Lookup(S.pod, o)
        /\ \A n \in 0..Len(pod) :
                LET b == LoopUpTo(S, r, k, pod, n).S.pod
                IN  /\ DOMAIN b = DOMAIN S.pod
                    /\ k \in DOMAIN b =>
                            b[k] = [S.pod[k] EXCEPT !.alertSent = b[k].alertSent]
        /\ a.S.pod[k].hasError = a.hasError
        /\ a.S.pod[k].lastSeen = now

\* C33 (as stated): handlePod evaluates every container, its hasError is the OR
\* of the verdicts, the record is upserted once, after the loop, and what the
\* callback emits is what the gates and recovery checks give on the record as
\* the previous event left it.
C33_ChecksReadPreviousRecord ==
    source = "pod" =>
        \A k \in Keys, pod \in PodObjects :
            /\ OneUpsertAfterLoop(Stores(Handler), Handler, k, pod)
            /\ handlePod(Stores(Handler), Handler, k, pod).t
                    = TallyFromPrevious(Stores(Handler), Handler, k, pod, 1, Tally0)

\* C33 (amended): as stated, but every gate and recovery check reads the record
\* as the previous event left it or that record with alertSent set by a
\* MarkSent made earlier in the same event.
C33_ChecksReadPreviousOrMarked ==
    source = "pod" =>
        \A k \in Keys, pod \in PodObjects :
            /\ OneUpsertAfterLoop(Stores(Handler), Handler, k, pod)
            /\ \A n \in 0..Len(pod) :
                    LoopUpTo(Stores(Handler), Handler, k, pod, n).S
                        \in {Stores(Handler), markAlertSent(Stores(Handler), k)}

\* A callback for a pod already known as failing and not yet alerted posted the
\* alert for one container and the recovery for another, which was running:
\* the recovery check read the alertSent that the same callback had just set.
C33_Witness ==
    /\ source = "pod"
    /\ \E k \in Keys :
        /\ last["pod"][k].kind = "upsert"
        /\ last["pod"][k].pre.hasError
        /\ ~last["pod"][k].pre.alertSent
        /\ last["pod"][k].t.alerts = 1
        /\ last["pod"][k].t.recov >= 1
        /\ last["pod"][k].hasError

\* The conditions of the node that the classifier counts as errors, in the
\* order it goes through them, with the message of each.
TriggeringConditions(node) ==
    SelectSeq(<<[on |-> node.ready \in {"False", "Unknown"}, msg |-> "Node not Ready"],
                [on |-> node.memory = "True", msg |-> "Node under MemoryPressure"],
                [on |-> node.disk = "True", msg |-> "Node under DiskPressure"]>>,
              LAMBDA x : x.on)

\* C34: processNodeStatus reports hasError iff Ready is False or Unknown or a
\* pressure is True; the triggering conditions pass the gate one by one in the
\* order Ready, MemoryPressure, DiskPressure, so that the first one alerts iff
\* the gate passes on the stored record, the verdict carries the message of the
\* last one, and a condition that does not trigger emits nothing; and a recovery
\* is emitted only for Ready True with both pressures False or absent and a
\* stored record with hasError and alertSent.
C34_NodeClassifier ==
    source = "node" =>
        \A k \in Keys, node \in NodeObjects :
            LET S == Stores(Handler)
                a == processNodeStatus(S, Handler, k, node)
                trig == TriggeringConditions(node)
            IN  /\ a.hasError = (\/ node.ready \in {"False", "Unknown"}
                                 \/ node.memory = "True"
                                 \/ node.disk = "True")
                /\ a.hasError = (trig # <<>>)
                /\ a.t.alerts = IF trig # <<>> /\ shouldSendAlert(S, "node", k) THEN 1 ELSE 0
                /\ a.msg = IF trig = <<>> THEN "" ELSE trig[Len(trig)].msg
                /\ a.S = IF a.t.alerts > 0 THEN markNodeAlertSent(S, k) ELSE S
                /\ a.t.recov > 0 =>
                        /\ node.ready = "True"
                        /\ node.memory \in {"absent", "False"}
                        /\ node.disk \in {"absent", "False"}
                        /\ Lookup(S.node, k).exists
                        /\ Lookup(S.node, k).hasError
                        /\ Lookup(S.node, k).alertSent

\* A node that was in error and alerted was seen Ready without pressure, and
\* the callback emitted the recovery.
C34_Witness ==
    /\ source = "node"
    /\ \E k \in Keys :
        /\ last["node"][k].kind = "upsert"
        /\ last["node"][k].pre.hasError
        /\ last["node"][k].pre.alertSent
        /\ ~last["node"][k].hasError
        /\ last["node"][k].t.recov = 1

\* C35: the node-resource record a callback wrote is in error iff
\* 100 * requests / allocatable, taken as 0 when allocatable is 0, is above
\* cpu_threshold_percent, and the callback alerted only then; a node with
\* allocatable 0 is not in error and did not alert; and a callback that cannot
\* read the usage leaves the node-resource store as it was and emits nothing.
C35_CpuAboveThreshold ==
    source = "node_resource" =>
        \A k \in Keys :
            /\ k \in DOMAIN nodeResourceStates[Handler] =>
                    LET rec == nodeResourceStates[Handler][k]
                        threshold == config.NodeMonitoring.CPUThresholdPercent
                        above == /\ rec.cpuCapacity > 0
                                 /\ rec.cpuRequests * 100 > threshold * rec.cpuCapacity
                    IN  /\ rec.hasError = above
                        /\ last["node_resource"][k].hasError = above
                        /\ last["node_resource"][k].t.alerts > 0 => above
                        /\ rec.cpuCapacity = 0 => last["node_resource"][k].t.alerts = 0
            /\ \A node \in NodeObjects :
                    node.usage.err =>
                        LET h == handleNode(Stores(Handler), Handler, k, node)
                        IN  /\ h.S.node_resource = nodeResourceStates[Handler]
                            /\ h.res.t = Tally0

\* The error condition of a volume as stated: attached or detached with
\* robustness degraded or faulted, or a state outside the five known ones, or
\* both sizes positive with the usage above volume_usage_percent or the
\* remaining capacity below volume_capacity_critical.
VolumeInError(v) ==
    \/ /\ v.state \in {"attached", "detached"}
       /\ v.robustness \in {"degraded", "faulted"}
    \/ v.state \notin {"attached", "detached", "creating", "attaching", "detaching"}
    \/ /\ v.capacity > 0
       /\ v.actualSize > 0
       /\ \/ v.actualSize * 100 > config.Longhorn.AlertThresholds.VolumeUsagePercent * v.capacity
          \/ v.capacity - v.actualSize < config.Longhorn.AlertThresholds.VolumeCapacityCritical

KeptForComparison(obj) ==
    /\ ~Contains(config.GitOps.Denylist.Kinds, obj.kind)
    /\ ~Contains(config.GitOps.Denylist.Namespaces, obj.namespace)
    /\ \/ config.GitOps.Allowlist.Kinds = <<>>
       \/ Contains(config.GitOps.Allowlist.Kinds, obj.kind)
    /\ \/ config.GitOps.Allowlist.Namespaces = <<>>
       \/ Contains(config.GitOps.Allowlist.Namespaces, obj.namespace)

\* C38: the manifests are the rendered resources, in order, whose kind and
\* namespace are in no denylist and in every non-empty allowlist; a resource
\* that a denylist names is dropped even when an allowlist names it.
C38_KeptIffListsAllow ==
    /\ last.manifests = SelectSeq(last.rendered, KeptForComparison)
    /\ \A obj \in RenderedObjects :
        /\ shouldFilterResource(obj) = ~KeptForComparison(obj)
        /\ (\/ Contains(config.GitOps.Denylist.Kinds, obj.kind)
            \/ Contains(config.GitOps.Denylist.Namespaces, obj.namespace))
                => shouldFilterResource(obj)

\* A rendering of two resources: the first is named by the kind allowlist and
\* by the namespace denylist and was dropped, the second was kept.
C38_Witness ==
    /\ Len(last.rendered) = 2
    /\ Contains(config.GitOps.Allowlist.Kinds, last.rendered[1].kind)
    /\ Contains(config.GitOps.Denylist.Namespaces, last.rendered[1].namespace)
    /\ config.GitOps.Allowlist.Namespaces # <<>>
    /\ last.manifests = <<last.rendered[2]>>

\* The two objects are equal as stated: the spec subtrees both absent or both
\* present and equal, and labels and annotations equal without the
\* system-managed keys.
EqualAsStated(d, a) ==
    /\ d.spec.exists = a.spec.exists
    /\ d.spec.exists => d.spec.tree = a.spec.tree
    /\ \A k \in (DOMAIN d.labels \cup DOMAIN a.labels) \ SystemLabels :
            k \in DOMAIN d.labels /\ k \in DOMAIN a.labels /\ d.labels[k] = a.labels[k]
    /\ \A k \in (DOMAIN d.annotations \cup DOMAIN a.annotations) \ SystemAnnotations :
            /\ k \in DOMAIN d.annotations
            /\ k \in DOMAIN a.annotations
            /\ d.annotations[k] = a.annotations[k]

\* The objects that differ from x in system-managed labels and annotations and
\* in fields outside spec, labels and annotations only.
SystemChanges(x) ==
    {y \in Resources :
        /\ y.spec = x.spec
        /\ cleanLabels(y.labels) = cleanLabels(x.labels)
        /\ cleanAnnotations(y.annotations) = cleanAnnotations(x.annotations)}

\* C37: resourcesEqual(dryRun, actual) is true iff the spec subtrees are both
\* absent or both present and equal and the labels and annotations are equal
\* without the system-managed keys; it is reflexive and symmetric; and a change
\* of a system-managed label or annotation or of a field outside spec, labels
\* and annotations, on either side, does not change the result.
C37_ResourcesEqual ==
    LET d == cluster.dryRun
        a == cluster.actual
    IN  /\ resourcesEqual(d, a) = EqualAsStated(d, a)
        /\ last.compared => last.equal = EqualAsStated(d, a)
        /\ resourcesEqual(d, d)
        /\ resourcesEqual(a, a)
        /\ resourcesEqual(d, a) = resourcesEqual(a, d)
        /\ \A y \in SystemChanges(d) : resourcesEqual(y, a) = resourcesEqual(d, a)
        /\ \A y \in SystemChanges(a) : resourcesEqual(d, y) = resourcesEqual(d, a)

\* Two objects that differ in a system-managed label, a system-managed
\* annotation and the status were compared and found equal.
C37_Witness ==
    /\ last.compared
    /\ last.equal
    /\ cluster.dryRun.spec.exists
    /\ cluster.dryRun.status # cluster.actual.status
    /\ "app" \in DOMAIN cluster.dryRun.labels
    /\ "helm.sh/chart" \in DOMAIN cluster.actual.labels
    /\ "helm.sh/chart" \notin DOMAIN cluster.dryRun.labels
    /\ "deployment.kubernetes.io/revision" \in DOMAIN cluster.dryRun.annotations
    /\ "deployment.kubernetes.io/revision" \in DOMAIN cluster.actual.annotations
    /\ cluster.dryRun.annotations # cluster.actual.annotations

KeptFamilies == {"pod", "node", "node_resource", "gitops"}

\* C39: no step removes a record from the pod, node, node-resource or GitOps
\* store, and a callback for a key that has a record starts from that record,
\* whatever happened to the object in between.
C39_RecordsAreKept ==
    [][\A f \in KeptFamilies, k \in Keys :
          k \in DOMAIN Stores(Handler)[f] =>
              /\ k \in DOMAIN Stores(Handler)'[f]
              /\ (f \in DOMAIN last /\ last'[f][k] # last[f][k]) =>
                    /\ last'[f][k].pre = Pre(Stores(Handler)[f], k)
                    /\ last'[f][k].pre.exists]_vars

\* A pod was seen again in error within the alert interval of the record its
\* key already had, and the callback did not alert as it would for a key seen
\* for the first time.
C39_Witness ==
    /\ source = "pod"
    /\ \E k \in Keys :
        /\ k \in DOMAIN podStates[Handler]
        /\ last["pod"][k].kind = "upsert"
        /\ last["pod"][k].pre.exists
        /\ last["pod"][k].pre.hasError
        /\ last["pod"][k].pre.alertSent
        /\ last["pod"][k].hasError
        /\ last["pod"][k].t.alerts = 0
        /\ last["pod"][k].leader

\* Key k of family f in the maps V: its record, if it has one.
RecordOf(V, f, k) == IF k \in DOMAIN MapOfFamily(V, f) THEN <<MapOfFamily(V, f)[k]>> ELSE <<>>

\* W differs from V in the record of key k of family f at most.
OthersUnchanged(V, W, f, k) ==
    \A g \in Families, j \in FrameKeys :
        <<g, j>> # <<f, k>> => RecordOf(W, g, j) = RecordOf(V, g, j)

\* C40: an upsert, a mark or a delete for key k of family f leaves the records
\* of the other keys of f and of all other families as they were; a mark sets
\* alertSent of k's record and changes nothing else of it, and creates no
\* record when k has none.
C40_Frame ==
    \A f \in Families, k \in FrameKeys :
        LET V == View(Handler)
            M == MarkSent(V, f, k)
        IN  /\ \A hasError \in BOOLEAN : OthersUnchanged(V, Upsert(V, f, k, hasError), f, k)
            /\ OthersUnchanged(V, M, f, k)
            /\ f \in LonghornFamilies => OthersUnchanged(V, Delete(V, f, k), f, k)
            /\ IF k \in DOMAIN MapOfFamily(V, f)
               THEN RecordOf(M, f, k) = <<[MapOfFamily(V, f)[k] EXCEPT !.alertSent = TRUE]>>
               ELSE RecordOf(M, f, k) = <<>>

\* Two pods in error have records: the first was marked, the second was not.
C40_Witness ==
    /\ DOMAIN podStates[Handler] = FrameKeys
    /\ podStates[Handler]["k1"].hasError
    /\ podStates[Handler]["k1"].alertSent
    /\ podStates[Handler]["k2"].hasError
    /\ ~podStates[Handler]["k2"].alertSent
====
